---- MODULE Spec2Model ----
(***************************************************************************)
(* Verification model of the NLP-to-SQL LangGraph agent.                   *)
(*                                                                         *)
(*  SpecGraph    the LangGraph state machine built by                      *)
(*               GraphManager.create_graph and one turn's walk through it, *)
(*               followed by the client's executeQuery wrapper.            *)
(*  SpecEngine   the Execution Engine (single statements and transactions  *)
(*               with rollback), DDL detection and the schema version.     *)
(*  SpecCache    the per-session Query Cache under SELECT turns and edits. *)
(*  SpecSession  the sessions of the HTTP layer: generators, Memory and    *)
(*               the session mutex.                                        *)
(*  SpecAnalytical  process_analytical_workflow: the sub-questions, their *)
(*               queries in sequence, and the returned report.             *)
(*  SpecPage     result tables, get_page and the client's page controls.   *)
(*  SpecConfirm  edit turns with the Verifier's verdict, the bot message   *)
(*               the client builds, and the SQL editor that re-submits the *)
(*               statements.                                               *)
(*  SpecChat     the ChatBot component: handleSendMessage with its calls   *)
(*               in flight, loadSessionMessages and the rendered editors;  *)
(*               SpecChatFair adds that every call settles.                *)
(*  SpecChatPage the ChatBot's handlePageChange and its page responses.    *)
(*  SpecEditor   the SqlEditor component: its cells, executeCell and       *)
(*               executeBatch with their executeSQL calls in flight.       *)
(*  SpecAuth     the AuthProvider: the stored token, login and logout.     *)
(***************************************************************************)
EXTENDS Integers, Sequences, FiniteSets, TLC

(***************************************************************************)
(* Bounds of the model.                                                    *)
(***************************************************************************)
MaxTurns == 2
MaxPlan == 2
MaxStmts == 3
MaxKey == 1
MaxVersion == 2
MaxGen == 2
MaxSubmit == 2
MaxRows == 12
MaxTables == 2
MaxPage == 4
MaxQueries == 2
MaxSends == 2
MaxHistory == 1
MaxChatPage == 2
MaxPageCalls == 2
MaxCells == 3
MaxEdits == 2
MaxExecutions == 2
MaxInitialQueries == 2
MaxLogins == 2

None == "none"

VARIABLES
    \* ---- graph walk of one turn (SQLGeneratorState + position) ----
    node,       \* the node about to run, or START / END / NoNext
    path,       \* the nodes that have run in this turn, in order
    state,      \* SQLGeneratorState (the fields routing depends on)
    request,    \* the QueryRequest of the turn
    envelope,   \* the value the turn hands to the HTTP layer
    clientResult, \* what executeQuery returns to its caller
    turns,      \* number of turns started
    \* ---- Execution Engine, schema version and Query Cache ----
    db,             \* the committed content of the target database
    schema_version, \* counter bumped on detected DDL
    cache,          \* per session: the CacheEntry records
    last_edit,      \* the last execute_edit call and its result
    last_turn,      \* the last SELECT turn and how it was answered
    \* ---- the chat client ----
    user,           \* role of the signed-in user and the edit-mode setting
    sqlEditor,      \* the SqlEditor attached to the last bot message
    \* ---- the sessions of the HTTP layer ----
    active_generators,  \* session id -> its SmartSQLGenerator
    vector_store,       \* persist directory -> the documents stored in it
    session_turns,      \* session id -> its turns, in submission order
    commits,            \* session id -> the turns stored to Memory, in order
    retrieved,          \* the last Memory retrieval and who asked for it
    \* ---- result tables and their pages ----
    result_tables,      \* the registry: table_id -> the stored result
    last_page,          \* the last page request and its response
    sqlResult,          \* the result the client shows on its message
    \* ---- the analytical workflow ----
    workflow,           \* process_analytical_workflow's progress and result
    \* ---- the components of the web client ----
    chat,               \* ChatBot: messages, isProcessing, calls in flight
    editor,             \* SqlEditor: the cells and the calls in flight
    auth                \* AuthProvider: localStorage token, user, error

graphVars == <<node, path, state, request, envelope, clientResult, turns>>

engineVars == <<db, schema_version, cache, last_edit, last_turn>>

clientVars == <<user, sqlEditor>>

sessionVars ==
    <<active_generators, vector_store, session_turns, commits, retrieved>>

pageVars == <<result_tables, last_page, sqlResult>>

uiVars == <<chat, editor, auth>>

vars ==
    <<graphVars, engineVars, clientVars, sessionVars, pageVars, workflow,
      uiVars>>

(***************************************************************************)
(* GraphManager.create_graph: nodes and edges.                             *)
(***************************************************************************)
START == "START"
END == "END"

EdgesBackToGenerate ==
    [ n \in { START, "handle_conversational", "generate_response",
              "generate_comprehensive_analysis", "handle_error",
              "validate_sql" } |->
        CASE n = START -> "route_query"
          [] n = "validate_sql" -> "generate_sql"
          [] OTHER -> END ]

\* graph.add_edge(a, b)
Edges ==
    [ n \in { START, "handle_conversational", "generate_response",
              "generate_comprehensive_analysis", "handle_error" } |->
        CASE n = START -> "route_query"
          [] OTHER -> END ]

\* graph.add_conditional_edges(a, router, {label: target})
ConditionalEdges ==
    [ n \in { "route_query", "generate_sql", "generate_analytical_questions",
              "execute_analytical_workflow" } |->
        CASE n = "route_query" ->
                [ l \in {"conversational", "analytical", "standard", "error"} |->
                    CASE l = "conversational" -> "handle_conversational"
                      [] l = "analytical" -> "generate_analytical_questions"
                      [] l = "standard" -> "generate_sql"
                      [] OTHER -> "handle_error" ]
          [] n = "generate_sql" ->
                [ l \in {"validate", "respond", "error"} |->
                    CASE l = "validate" -> "validate_sql"
                      [] l = "respond" -> "generate_response"
                      [] OTHER -> "handle_error" ]
          [] n = "generate_analytical_questions" ->
                [ l \in {"execute", "error"} |->
                    CASE l = "execute" -> "execute_analytical_workflow"
                      [] OTHER -> "handle_error" ]
          [] OTHER ->
                [ l \in {"analyze", "error"} |->
                    CASE l = "analyze" -> "generate_comprehensive_analysis"
                      [] OTHER -> "handle_error" ] ]

\* The nodes create_graph wires straight to END.
TerminalNodes ==
    \* GraphManager.create_graph, part_008:926-937
    LET Nodes ==
            { "route_query", "handle_conversational", "generate_sql", "validate_sql",
              "generate_response", "handle_error", "generate_analytical_questions",
              "execute_analytical_workflow", "generate_comprehensive_analysis" }
    IN
                         { n \in Nodes : n \in DOMAIN Edges /\ Edges[n] = END }

\* The node scheduled after n has run; a node without an outgoing edge
\* schedules nothing and the run stops there.
NextNode(n, label) ==
    \* GraphManager.create_graph, part_008:952-988
    LET NoNext == "no_next_node"
    IN
            IF n \in DOMAIN Edges THEN Edges[n]
            ELSE IF n \in DOMAIN ConditionalEdges THEN ConditionalEdges[n][label]
            ELSE NoNext

(***************************************************************************)
(* SQLGeneratorState and the QueryRequest of a turn.                       *)
(***************************************************************************)
Questions == {"q1", "q2"}

\* max_attempts of the QueryRequest, the default of MAX_VALIDATION_ATTEMPTS.
MaxValidationAttempts == 2

NoEnvelope == [query_type |-> None, success |-> FALSE, text |-> None]

InitialState ==
    [ workflow_type |-> None, sql |-> None, error |-> None,
      validation_attempts |-> 0,
      analytical_questions |-> <<>>, analytical_results |-> <<>> ]

\* Sequences over S of length at most n.
SeqUpTo(S, n) == UNION { [1..k -> S] : k \in 0..n }

RECURSIVE Dedupe(_)
\* Planner validation: later duplicates of a sub-question are removed.
Dedupe(qs) ==
    IF qs = <<>> THEN <<>>
    ELSE LET rest == Dedupe(SubSeq(qs, 1, Len(qs) - 1))
             last == qs[Len(qs)]
         IN IF \E i \in 1..Len(rest) : rest[i] = last THEN rest
            ELSE Append(rest, last)

(***************************************************************************)
(* Routers of the conditional edges.                                       *)
(***************************************************************************)

(***************************************************************************)
(* The target database and the statements run against it.                  *)
(***************************************************************************)
Sessions == {"s1", "s2"}

IsSchemaChanging(stmt) ==
    \* Automatic Detection, part_008:244-252
    \* Automatic Detection: the schema-changing operations.
    LET SchemaChangingOps ==
            { "CREATE TABLE", "DROP TABLE", "ALTER TABLE", "CREATE INDEX", "DROP INDEX",
              "CREATE VIEW", "DROP VIEW", "CREATE SCHEMA", "DROP SCHEMA",
              "CREATE SEQUENCE", "DROP SEQUENCE", "TRUNCATE TABLE", "RENAME" }
    IN
                                  stmt.op \in SchemaChangingOps

EmptyDb ==
    \* Example Usage, part_008:229-235
    LET Tables == {"t"}
    \* Rollback Information, part_008:296-304
    \* A table that does not exist, and a table with the rows of the keys ks.
        Absent == [exists |-> FALSE, rows |-> {}]
    IN
                   [t \in Tables |-> Absent]

\* The effect of one statement on a database state d: the database raises
\* an error for a table that is missing or already there and for a
\* duplicate key.
ExecStmt(d, stmt) ==
    \* Rollback Information, part_008:296-304
    \* A table that does not exist, and a table with the rows of the keys ks.
    LET Absent == [exists |-> FALSE, rows |-> {}]
    \* Example Usage, part_008:229-235
        Table(ks) == [exists |-> TRUE, rows |-> ks]
        t == stmt.table IN
    CASE stmt.op = "CREATE TABLE" ->
            IF ~d[t].exists
            THEN [ok |-> TRUE, db |-> [d EXCEPT ![t] = Table({})], affected |-> 0]
            ELSE [ok |-> FALSE, db |-> d, affected |-> 0]
      [] stmt.op = "DROP TABLE" ->
            IF d[t].exists
            THEN [ok |-> TRUE, db |-> [d EXCEPT ![t] = Absent], affected |-> 0]
            ELSE [ok |-> FALSE, db |-> d, affected |-> 0]
      [] OTHER ->
            IF d[t].exists /\ stmt.key \notin d[t].rows
            THEN [ok |-> TRUE,
                  db |-> [d EXCEPT ![t] = Table(d[t].rows \cup {stmt.key})],
                  affected |-> 1]
            ELSE [ok |-> FALSE, db |-> d, affected |-> 0]

(***************************************************************************)
(* execute_edit: one statement on its own, or a transaction.               *)
(***************************************************************************)
\* A transaction-control command on the connection (BEGIN, COMMIT, ROLLBACK).
Command(op) == [op |-> op, table |-> "", key |-> 0]

Entry(stmt, success, affected, outcome) ==
    [sql |-> stmt, success |-> success, affected_rows |-> affected,
     outcome |-> outcome]

SkippedOmitted(sqls, i) == <<>>

\* Statements from position i on were not executed.
Skipped(sqls, i) ==
    [j \in 1..(Len(sqls) - i + 1) |-> Entry(sqls[j + i - 1], FALSE, 0, "skipped")]

UseTransactionOnRequestOnly(sqls, mode) == mode = "transaction"

\* When mode = transaction or sqls.length > 1 the statements run in one
\* transaction.
UseTransaction(sqls, mode) == mode = "transaction" \/ Len(sqls) > 1

RollbackKeepsWork(before, work) == work

\* ROLLBACK: the database goes back to the state before BEGIN.
Rollback(before, work) == before

RECURSIVE TransactionFrom(_, _, _, _, _, _)
\* execute_query_with_transaction from statement i on: work is the
\* uncommitted state, ops the commands sent on the connection so far.
TransactionFrom(before, work, sqls, i, entries, ops) ==
    \* execute_edit per_statement entries (spec 4.4)
    \* Entries of executed statements, marked once the transaction is over.
    LET Marked(entries_, outcome) ==
            [j \in 1..Len(entries_) |-> [entries_[j] EXCEPT !.outcome = outcome]]
    IN
            IF i > Len(sqls)
            THEN [ db |-> work,
                   per_statement |-> Marked(entries, "committed"),
                   ops |-> Append(ops, Command("COMMIT")),
                   success |-> TRUE, transaction |-> TRUE,
                   rollback_performed |-> FALSE, failed_at_query |-> 0 ]
            ELSE LET r == ExecStmt(work, sqls[i]) IN
                 IF r.ok
                 THEN TransactionFrom(before, r.db, sqls, i + 1,
                                      Append(entries,
                                             Entry(sqls[i], TRUE, r.affected, "executed")),
                                      Append(ops, sqls[i]))
                 ELSE [ db |-> Rollback(before, work),
                        per_statement |->
                            Marked(entries, "rolled_back")
                                \o <<Entry(sqls[i], FALSE, 0, "failed")>>
                                \o Skipped(sqls, i + 1),
                        ops |-> ops \o <<sqls[i], Command("ROLLBACK")>>,
                        success |-> FALSE, transaction |-> TRUE,
                        rollback_performed |-> TRUE, failed_at_query |-> i ]

RECURSIVE AutocommitFrom(_, _, _, _, _)
\* Statements sent one by one outside a transaction: each one that
\* succeeds is committed by itself, the first error ends the call.
AutocommitFrom(d, sqls, i, entries, ops) ==
    IF i > Len(sqls)
    THEN [ db |-> d, per_statement |-> entries, ops |-> ops,
           success |-> TRUE, transaction |-> FALSE,
           rollback_performed |-> FALSE, failed_at_query |-> 0 ]
    ELSE LET r == ExecStmt(d, sqls[i]) IN
         IF r.ok
         THEN AutocommitFrom(r.db, sqls, i + 1,
                             Append(entries,
                                    Entry(sqls[i], TRUE, r.affected, "committed")),
                             Append(ops, sqls[i]))
         ELSE [ db |-> d,
                per_statement |->
                    entries \o <<Entry(sqls[i], FALSE, 0, "failed")>>
                            \o Skipped(sqls, i + 1),
                ops |-> Append(ops, sqls[i]),
                success |-> FALSE, transaction |-> FALSE,
                rollback_performed |-> FALSE, failed_at_query |-> i ]

\* execute_edit(sqls, mode) against database state d.
ExecuteEdit(d, sqls, mode) ==
    IF UseTransaction(sqls, mode)
    THEN TransactionFrom(d, d, sqls, 1, <<>>, <<Command("BEGIN")>>)
    ELSE AutocommitFrom(d, sqls, 1, <<>>, <<>>)

\* On success, if any statement matches the DDL set, flag schema_changed.
SchemaChanged(sqls, res) ==
    \* _detect_schema_changes, part_008:323-325
    \* _detect_schema_changes(queries)
    LET DetectSchemaChanges(sqls_) == \E i \in 1..Len(sqls_) : IsSchemaChanging(sqls_[i])
    IN
                                    res.success /\ DetectSchemaChanges(sqls)

BumpedVersionKept(v, changed) == v

\* schema_version after an edit whose result is res.
BumpedVersion(v, changed) == IF changed THEN v + 1 ELSE v

EvictNothing(c, v) == c

\* Bulk invalidation: entries written under another schema_version go.
Evict(c, v) == [s \in Sessions |-> {e \in c[s] : e.schema_version = v}]

EngineIdle ==
    \* Enhanced Response Format, part_008:268-304
    LET NoEdit ==
            [ sqls |-> <<>>, mode |-> "auto", db_before |-> EmptyDb, version_before |-> 0,
              per_statement |-> <<>>, ops |-> <<>>, success |-> TRUE,
              transaction |-> FALSE, rollback_performed |-> FALSE,
              failed_at_query |-> 0, schema_changed |-> FALSE, refresh |-> "none" ]
    \* Query Cache turn (spec 4.7)
        NoTurn ==
            [ session |-> "s1", question |-> None, hit |-> FALSE, success |-> FALSE,
              rows |-> {}, entry_version |-> 0, version |-> 0,
              fresh |-> [success |-> FALSE, rows |-> {}] ]
    IN
            /\ db = EmptyDb
            /\ schema_version = 0
            /\ cache = [s \in Sessions |-> {}]
            /\ last_edit = NoEdit
            /\ last_turn = NoTurn

\* What one execute_edit call does to the engine's state: the statements
\* run, and on schema_changed an incremental refresh is attempted (when it
\* fails the full re-analysis runs), schema_version is bumped and the
\* caches are invalidated.
EditStep(sqls, mode, incremental_ok) ==
    LET res == ExecuteEdit(db, sqls, mode)
        changed == SchemaChanged(sqls, res)
    IN /\ db' = res.db
       /\ schema_version' = BumpedVersion(schema_version, changed)
       /\ cache' = Evict(cache, schema_version')

\* The value an execute_edit call returns, with the call's arguments.
EditResult(sqls, mode, incremental_ok) ==
    LET res == ExecuteEdit(db, sqls, mode)
        changed == SchemaChanged(sqls, res)
    IN [ sqls |-> sqls, mode |-> mode, db_before |-> db,
         version_before |-> schema_version,
         per_statement |-> res.per_statement, ops |-> res.ops,
         success |-> res.success, transaction |-> res.transaction,
         rollback_performed |-> res.rollback_performed,
         failed_at_query |-> res.failed_at_query,
         schema_changed |-> changed,
         refresh |-> IF ~changed THEN "none"
                     ELSE IF incremental_ok THEN "incremental"
                     ELSE "full" ]

\* execute_edit(sqls, mode), as called through POST /execute-sql.
execute_edit ==
    \* Multi-Query Separator, part_008:223-226
    LET EditRequests ==
            \* Example Usage, part_008:229-235
            \* One statement: DDL on a table, or DML on its rows.
            LET Statements ==
                    \* Example Usage, part_008:229-235
                    LET Tables == {"t"}
                    \* Example Usage, part_008:229-235
                        Keys == 1..MaxKey
                    IN
                            [op : {"CREATE TABLE", "DROP TABLE"}, table : Tables, key : {0}]
                                \cup [op : {"INSERT"}, table : Tables, key : Keys]
            IN
                                SeqUpTo(Statements, MaxStmts) \ {<<>>}
    IN
            /\ schema_version < MaxVersion
            /\ \E sqls \in EditRequests, mode \in {"auto", "transaction"},
                  incremental_ok \in BOOLEAN :
                  /\ EditStep(sqls, mode, incremental_ok)
                  /\ last_edit' = EditResult(sqls, mode, incremental_ok)
            /\ UNCHANGED last_turn
            /\ UNCHANGED <<graphVars, clientVars, sessionVars, pageVars, workflow>>
            /\ UNCHANGED uiVars

\* The same call between the SELECT turns of the sessions; its result goes
\* to its own caller and is not kept.
edit_between_turns ==
    \* Multi-Query Separator, part_008:223-226
    LET EditRequests ==
            \* Example Usage, part_008:229-235
            \* One statement: DDL on a table, or DML on its rows.
            LET Statements ==
                    \* Example Usage, part_008:229-235
                    LET Tables == {"t"}
                    \* Example Usage, part_008:229-235
                        Keys == 1..MaxKey
                    IN
                            [op : {"CREATE TABLE", "DROP TABLE"}, table : Tables, key : {0}]
                                \cup [op : {"INSERT"}, table : Tables, key : Keys]
            IN
                                SeqUpTo(Statements, MaxStmts) \ {<<>>}
    IN
            /\ schema_version < MaxVersion
            /\ \E sqls \in EditRequests, mode \in {"auto", "transaction"},
                  incremental_ok \in BOOLEAN :
                  EditStep(sqls, mode, incremental_ok)
            /\ UNCHANGED <<last_edit, last_turn>>
            /\ UNCHANGED <<graphVars, clientVars, sessionVars, pageVars, workflow>>
            /\ UNCHANGED uiVars

(***************************************************************************)
(* Query Cache and the SELECT turn that uses it.                           *)
(***************************************************************************)

\* A standard SELECT turn of session s: hit returns the stored result and
\* bypasses generation and execution, miss executes and writes on success.
select_turn ==
    \* Query Cache fingerprint (spec 4.7)
    \* Fingerprint = hash(normalized_question || schema_version)
    LET Fingerprint(q, v) == <<q, v>>
    \* execute_select (spec 4.4)
    \* execute_select of the question's SQL on database state d.
        ExecuteSelect(d, q) ==
            \* Query Cache question (spec 4.7)
            \* The table a question is about (the SQL the generator emits for it).
            LET QuestionTable(q_) == "t"
            IN
                    IF d[QuestionTable(q)].exists
                    THEN [success |-> TRUE, rows |-> d[QuestionTable(q)].rows]
                    ELSE [success |-> FALSE, rows |-> {}]
    \* Query Cache write (spec 4.7)
    \* Miss proceeds normally and writes on success: an entry of the same
    \* fingerprint is replaced.
        CacheWrite(c, e) == {x \in c : x.fingerprint # e.fingerprint} \cup {e}
    \* Query Cache lookup (spec 4.7)
    \* The entries of cache c that a lookup of fingerprint fp finds.
        Lookup(c, fp) == {e \in c : e.fingerprint = fp}
    \* CacheEntry (spec 3)
        CacheEntry(q, v, rows) ==
            [fingerprint |-> Fingerprint(q, v), question |-> q, rows |-> rows,
             schema_version |-> v]
    \* Query Cache question (spec 4.7)
        SelectQuestions == {"q1", "q2"}
    IN
            \E s \in Sessions, q \in SelectQuestions :
                LET fp == Fingerprint(q, schema_version)
                    hits == Lookup(cache[s], fp)
                IN \/ /\ hits # {}
                      /\ \E e \in hits :
                            last_turn' = [ session |-> s, question |-> q, hit |-> TRUE,
                                           success |-> TRUE, rows |-> e.rows,
                                           entry_version |-> e.schema_version,
                                           version |-> schema_version,
                                           fresh |-> ExecuteSelect(db, q) ]
                      /\ UNCHANGED <<db, schema_version, cache, last_edit>>
                      /\ UNCHANGED <<graphVars, clientVars, sessionVars, pageVars, workflow>>
                   \/ /\ hits = {}
                      /\ LET res == ExecuteSelect(db, q) IN
                            /\ last_turn' = [ session |-> s, question |-> q, hit |-> FALSE,
                                              success |-> res.success, rows |-> res.rows,
                                              entry_version |-> schema_version,
                                              version |-> schema_version,
                                              fresh |-> res ]
                            /\ cache' = IF res.success
                                          THEN [cache EXCEPT ![s] =
                                                  CacheWrite(@, CacheEntry(q, schema_version,
                                                                           res.rows))]
                                          ELSE cache
                      /\ UNCHANGED <<db, schema_version, last_edit>>
                      /\ UNCHANGED <<graphVars, clientVars, sessionVars, pageVars, workflow>>
            /\ UNCHANGED uiVars

(***************************************************************************)
(* One turn: process_unified_query runs the compiled graph from START.     *)
(***************************************************************************)
GraphIdle ==
    /\ node = END
    /\ path = <<>>
    /\ state = InitialState
    /\ request = [question |-> "q1", auto_fix |-> TRUE]
    /\ envelope = NoEnvelope
    /\ clientResult = NoEnvelope
    /\ turns = 0

TurnOver ==
    \* GraphManager.create_graph, part_008:952-988
    LET NoNext == "no_next_node"
    IN
                    node \in {END, NoNext}

\* POST /sessions/{id}/query: a new turn enters the graph at START.
StartTurn ==
    /\ TurnOver
    /\ turns < MaxTurns
    /\ \E q \in Questions, af \in BOOLEAN :
          request' = [question |-> q, auto_fix |-> af]
    /\ turns' = turns + 1
    /\ node' = Edges[START]
    /\ path' = <<>>
    /\ state' = InitialState
    /\ envelope' = NoEnvelope
    /\ clientResult' = NoEnvelope
    /\ UNCHANGED <<engineVars, clientVars, sessionVars, pageVars, workflow>>
    /\ UNCHANGED uiVars

Ran(n) ==
    /\ path' = Append(path, n)
    /\ UNCHANGED <<engineVars, clientVars, sessionVars, pageVars, workflow>>
    /\ UNCHANGED uiVars

\* _route_query_node
route_query_node ==
    \* GraphManager._route_decision, part_008:941-950
    \* _route_decision
    LET RouteDecision(st) == st.workflow_type
    IN
            /\ node = "route_query"
            /\ \E wt \in {"conversational", "analytical", "standard", "error"} :
                  /\ state' = [state EXCEPT !.workflow_type = wt,
                                  !.error = IF wt = "error" THEN "routing_failed" ELSE None]
                  /\ node' = NextNode("route_query", RouteDecision(state'))
            /\ Ran("route_query")
            /\ UNCHANGED <<request, envelope, clientResult, turns>>

\* _handle_conversational_node
handle_conversational_node ==
    /\ node = "handle_conversational"
    /\ envelope' = [query_type |-> "conversational", success |-> TRUE, text |-> "reply"]
    /\ node' = NextNode("handle_conversational", None)
    /\ Ran("handle_conversational")
    /\ UNCHANGED <<state, request, clientResult, turns>>

\* _generate_sql_node
generate_sql_node ==
    \* GraphManager._should_validate
    \* _should_validate
    LET ShouldValidate(st, req) ==
            IF st.error # None THEN "error"
            ELSE IF req.auto_fix THEN "validate"
            ELSE "respond"
    IN
            /\ node = "generate_sql"
            /\ \E out \in {"sql", "generation_failed", "parse_failed"} :
                  /\ state' = IF out = "sql"
                                THEN [state EXCEPT !.sql = "SELECT"]
                                ELSE [state EXCEPT !.error = out]
                  /\ node' = NextNode("generate_sql", ShouldValidate(state', request))
            /\ Ran("generate_sql")
            /\ UNCHANGED <<request, envelope, clientResult, turns>>

\* _validate_sql_node
validate_sql_node ==
    /\ node = "validate_sql"
    /\ \E ok \in BOOLEAN :
          state' = [state EXCEPT
                      !.validation_attempts = @ + 1,
                      !.error = IF ok THEN None ELSE "timeout"]
    /\ node' = NextNode("validate_sql", None)
    /\ Ran("validate_sql")
    /\ UNCHANGED <<request, envelope, clientResult, turns>>

\* _generate_response_node
generate_response_node ==
    /\ node = "generate_response"
    /\ envelope' = [query_type |-> "sql", success |-> TRUE, text |-> "summary"]
    /\ node' = NextNode("generate_response", None)
    /\ Ran("generate_response")
    /\ UNCHANGED <<state, request, clientResult, turns>>

\* _handle_error_node
handle_error_node ==
    /\ node = "handle_error"
    /\ envelope' = [query_type |-> "conversational", success |-> FALSE,
                    text |-> state.error]
    /\ node' = NextNode("handle_error", None)
    /\ Ran("handle_error")
    /\ UNCHANGED <<state, request, clientResult, turns>>

\* _generate_analytical_questions_node
generate_analytical_questions_node ==
    \* GraphManager._analytical_questions_result
    \* _analytical_questions_result
    LET AnalyticalQuestionsResult(st) ==
            IF st.error # None \/ st.analytical_questions = <<>> THEN "error"
            ELSE "execute"
    IN
            /\ node = "generate_analytical_questions"
            /\ \E plan \in SeqUpTo(Questions, MaxPlan), ok \in BOOLEAN :
                  /\ state' = IF ok
                                THEN [state EXCEPT !.analytical_questions = Dedupe(plan)]
                                ELSE [state EXCEPT !.error = "generation_failed"]
                  /\ node' = NextNode("generate_analytical_questions",
                                      AnalyticalQuestionsResult(state'))
            /\ Ran("generate_analytical_questions")
            /\ UNCHANGED <<request, envelope, clientResult, turns>>

\* _execute_analytical_workflow_node
execute_analytical_workflow_node ==
    \* AnalyticalManager.process_analytical_workflow, part_008:1087-1115
    \* AnalyticalManager.process_analytical_workflow: the sub-questions whose
    \* query succeeded, in the order of the questions.
    LET AnalyticalResults(questions, succeeded) ==
            SelectSeq(questions, LAMBDA q : q \in succeeded)
    \* GraphManager._analytical_execution_result
    \* _analytical_execution_result
        AnalyticalExecutionResult(st) ==
            IF st.error # None THEN "error" ELSE "analyze"
    IN
            /\ node = "execute_analytical_workflow"
            /\ \E succeeded \in SUBSET Questions :
                  state' = [state EXCEPT !.analytical_results =
                                AnalyticalResults(state.analytical_questions, succeeded)]
            /\ node' = NextNode("execute_analytical_workflow",
                                AnalyticalExecutionResult(state'))
            /\ Ran("execute_analytical_workflow")
            /\ UNCHANGED <<request, envelope, clientResult, turns>>

\* _generate_comprehensive_analysis_node
generate_comprehensive_analysis_node ==
    /\ node = "generate_comprehensive_analysis"
    /\ envelope' = [query_type |-> "analysis", success |-> TRUE, text |-> "report"]
    /\ node' = NextNode("generate_comprehensive_analysis", None)
    /\ Ran("generate_comprehensive_analysis")
    /\ UNCHANGED <<state, request, clientResult, turns>>

(***************************************************************************)
(* The client: executeQuery posts the question and wraps the response.     *)
(***************************************************************************)
\* The switch on responseData.query_type.
ExecuteQuerySwitch(responseData) ==
    CASE responseData.query_type = "conversational" ->
            [responseData EXCEPT !.query_type = "conversational"]
      [] responseData.query_type = "analysis" ->
            [responseData EXCEPT !.query_type = "analysis"]
      [] OTHER ->
            [responseData EXCEPT !.query_type = "sql"]

\* The catch branch: a standardized error response.
ExecuteQueryCatch ==
    [query_type |-> "conversational", success |-> FALSE, text |-> "Error"]

executeQuery ==
    /\ TurnOver
    /\ turns > 0
    /\ clientResult = NoEnvelope
    /\ \/ clientResult' = ExecuteQuerySwitch(envelope)
       \/ clientResult' = ExecuteQueryCatch
    /\ UNCHANGED <<node, path, state, request, envelope, turns>>
    /\ UNCHANGED <<engineVars, clientVars, sessionVars, pageVars, workflow>>
    /\ UNCHANGED uiVars

(***************************************************************************)
(* Edit turns: generation, the Verifier's verdict, the confirmation         *)
(* contract, and the client's message with its SQL editor.                 *)
(***************************************************************************)
Verdicts == {"SAFE_TO_EXECUTE", "REQUIRES_REVIEW", "DO_NOT_EXECUTE"}

\* The multi-statement separator <----->, as a token of a SQL blob.
Sep == Command("<----->")

RECURSIVE JoinSql(_)
\* statements.join('\n<----->\n')
JoinSql(sqls) ==
    IF Len(sqls) = 0 THEN <<>>
    ELSE IF Len(sqls) = 1 THEN <<sqls[1]>>
    ELSE <<sqls[1], Sep>> \o JoinSql(Tail(sqls))

RECURSIVE SplitSegments(_, _)
\* sql.split('<----->'): the token runs between separators, cur being the
\* run read so far.
SplitSegments(blob, cur) ==
    IF blob = <<>> THEN <<cur>>
    ELSE IF Head(blob) = Sep THEN <<cur>> \o SplitSegments(Tail(blob), <<>>)
    ELSE SplitSegments(Tail(blob), Append(cur, Head(blob)))

\* .map(q => q.trim()).filter(q => q): empty pieces are dropped; a piece is
\* one statement.
SplitSql(blob) ==
    LET pieces == SelectSeq(SplitSegments(blob, <<>>), LAMBDA p : p # <<>>)
    IN [i \in 1..Len(pieces) |-> pieces[i][1]]

AutoExecutableAll == Verdicts

\* The verdicts under which the core runs the statements by itself.
AutoExecutable == {"SAFE_TO_EXECUTE"}

CoreExecutesUnlessForbidden(verdict) == verdict # "DO_NOT_EXECUTE"

\* Whether the core runs the generated edit itself within the turn.
CoreExecutes(verdict) == verdict \in AutoExecutable

NoEditor == [attached |-> FALSE, cells |-> <<>>, requiresConfirmation |-> FALSE]

\* The sqlEditor handleSendMessage puts on the bot message for result.
EditorFor(result, u) ==
    IF /\ result.query_type \in {"sql", "edit_sql"}
       /\ u.role = "admin"
       /\ result.sql # <<>>
    THEN IF \/ result.query_type = "edit_sql"
            \/ result.is_edit_query
            \/ result.requires_confirmation
         THEN [attached |-> TRUE, cells |-> SplitSql(result.sql),
               requiresConfirmation |-> result.requires_confirmation]
         ELSE IF u.edit_mode_enabled /\ Len(SplitSql(result.sql)) > 1
         THEN [attached |-> TRUE, cells |-> SplitSql(result.sql),
               requiresConfirmation |-> FALSE]
         ELSE NoEditor
    ELSE NoEditor

ClientIdle ==
    /\ user = [role |-> "admin", edit_mode_enabled |-> TRUE]
    /\ sqlEditor = NoEditor

\* handleSendMessage for a question that asks for a change of the data: the
\* client posts it, the core generates the statements and verifies them,
\* runs them itself only when CoreExecutes, and the client builds the bot
\* message from the response.
handleSendMessage ==
    \* Example Usage, part_008:229-235
    \* One statement: DDL on a table, or DML on its rows.
    LET Statements ==
            \* Example Usage, part_008:229-235
            LET Tables == {"t"}
            \* Example Usage, part_008:229-235
                Keys == 1..MaxKey
            IN
                    [op : {"CREATE TABLE", "DROP TABLE"}, table : Tables, key : {0}]
                        \cup [op : {"INSERT"}, table : Tables, key : Keys]
    \* edit SQL generation (spec 4.2)
        GeneratedEdits == SeqUpTo(Statements, MaxGen) \ {<<>>}
    \* edit turn without edit mode (spec 4.6)
    \* The envelope of a turn that produced no SQL.
        RefusalEnvelope ==
            [ query_type |-> "conversational", success |-> TRUE, text |-> "reply",
              sql |-> <<>>, requires_confirmation |-> FALSE,
              verification_result |-> None, is_edit_query |-> FALSE ]
    \* edit turn envelope (spec 4.6)
    \* The envelope of an edit turn.
        EditEnvelope(sqls, verdict, flagged, res) ==
            \* requires_confirmation (spec 4.5)
            \* requires_confirmation: true when edit verification demands review.
            LET RequiresConfirmation(verdict_) == verdict_ # "SAFE_TO_EXECUTE"
            IN
                    [ query_type |-> IF RequiresConfirmation(verdict) THEN "edit_sql"
                                     ELSE "edit_execution",
                      success |-> res.success, text |-> "edit",
                      sql |-> JoinSql(sqls),
                      requires_confirmation |-> RequiresConfirmation(verdict),
                      verification_result |-> verdict,
                      is_edit_query |-> flagged ]
    \* query_with_session, part_008:875-875
    \* edit_mode_enabled=(current_user.role == UserRole.ADMIN)
        EditModeEnabled(role) == role = "admin"
    IN
            /\ turns < MaxTurns
            /\ schema_version < MaxVersion
            /\ turns' = turns + 1
            /\ \/ /\ EditModeEnabled(user.role)
                  /\ \E sqls \in GeneratedEdits, verdict \in Verdicts,
                        flagged \in BOOLEAN, incremental_ok \in BOOLEAN :
                        LET res == ExecuteEdit(db, sqls, "auto") IN
                        /\ envelope' = EditEnvelope(sqls, verdict, flagged, res)
                        /\ IF CoreExecutes(verdict)
                           THEN /\ EditStep(sqls, "auto", incremental_ok)
                                /\ last_edit' = EditResult(sqls, "auto", incremental_ok)
                           ELSE UNCHANGED <<db, schema_version, cache, last_edit>>
               \/ /\ ~EditModeEnabled(user.role)
                  /\ envelope' = RefusalEnvelope
                  /\ UNCHANGED <<db, schema_version, cache, last_edit>>
            /\ clientResult' = ExecuteQuerySwitch(envelope')
            /\ sqlEditor' = EditorFor(clientResult', user)
            /\ UNCHANGED <<node, path, state, request, last_turn, user>>
            /\ UNCHANGED <<sessionVars, pageVars, workflow>>
            /\ UNCHANGED uiVars

\* A cell whose sql is blank.
Blank == Command("")

\* cells.filter(cell => cell.sql.trim()): the statements of the non-blank
\* cells.
ValidCells(cells) == SelectSeq(cells, LAMBDA c : c # Blank)

\* executeBatch: the cells go to POST /execute-sql as one blob, which the
\* server splits and hands to execute_edit.
executeBatch ==
    /\ sqlEditor.attached
    /\ ValidCells(sqlEditor.cells) # <<>>
    /\ schema_version < MaxVersion
    /\ \E incremental_ok \in BOOLEAN :
          LET combinedSql == JoinSql(ValidCells(sqlEditor.cells))
              sqls == SplitSql(combinedSql)
          IN /\ EditStep(sqls, "auto", incremental_ok)
             /\ last_edit' = EditResult(sqls, "auto", incremental_ok)
    /\ UNCHANGED <<last_turn, user, sqlEditor>>
    /\ UNCHANGED <<graphVars, sessionVars, pageVars, workflow>>
    /\ UNCHANGED uiVars

\* executeCell: one cell's statement goes to POST /execute-sql by itself.
executeCell ==
    /\ sqlEditor.attached
    /\ schema_version < MaxVersion
    /\ \E i \in 1..Len(sqlEditor.cells), incremental_ok \in BOOLEAN :
          /\ sqlEditor.cells[i] # Blank
          /\ LET sqls == SplitSql(<<sqlEditor.cells[i]>>)
             IN /\ EditStep(sqls, "auto", incremental_ok)
                /\ last_edit' = EditResult(sqls, "auto", incremental_ok)
    /\ UNCHANGED <<last_turn, user, sqlEditor>>
    /\ UNCHANGED <<graphVars, sessionVars, pageVars, workflow>>
    /\ UNCHANGED uiVars

(***************************************************************************)
(* Sessions: query_with_session, the generator and Memory of a session,    *)
(* and the session mutex that serializes the turns of one session.         *)
(***************************************************************************)
PersistDirShared(session_id) == <<"./memory_store/session_", "">>

\* memory_persist_dir=f"./memory_store/session_{session_id}"
PersistDir(session_id) == <<"./memory_store/session_", session_id>>

\* get_relevant_context's default k.
DefaultK == 3

MutexAlwaysFree(s) == TRUE

\* The session mutex is free when no turn of the session is running.
MutexFree(s) ==
    \A i \in 1..Len(session_turns[s]) : session_turns[s][i].phase # "running"

\* The waiting turn the mutex is handed to: the one that has waited longest.
NextWaiting(s) ==
    LET waiting == {i \in 1..Len(session_turns[s]) :
                        session_turns[s][i].phase = "waiting"}
    IN IF waiting = {} THEN 0
       ELSE CHOOSE i \in waiting : \A j \in waiting : i <= j

SessionIdle ==
    \* query_with_session, part_008:865-865
    LET PersistDirs == {PersistDir(s) : s \in Sessions}
    IN
            /\ active_generators = <<>>
            /\ vector_store = [d \in PersistDirs |-> {}]
            /\ session_turns = [s \in Sessions |-> <<>>]
            /\ commits = [s \in Sessions |-> <<>>]
            /\ retrieved = [session |-> None, docs |-> {}]

\* POST /sessions/{session_id}/query arrives: initialize or get the SQL
\* generator for the session, and queue the turn on the session.
query_with_session ==
    \* session turn (spec 5)
    LET NewTurn == [phase |-> "waiting", nodes |-> 0]
    \* query_with_session, part_008:863-868
    \* SmartSQLGenerator(use_memory=True, memory_persist_dir=..., use_cache=True)
        SmartSQLGenerator(session_id) ==
            [use_memory |-> TRUE, memory_persist_dir |-> PersistDir(session_id)]
    IN
            \E s \in Sessions :
                /\ Len(session_turns[s]) < MaxSubmit
                /\ active_generators' =
                      IF s \notin DOMAIN active_generators
                      THEN [x \in DOMAIN active_generators \cup {s} |->
                                IF x = s THEN SmartSQLGenerator(s)
                                ELSE active_generators[x]]
                      ELSE active_generators
                /\ session_turns' = [session_turns EXCEPT ![s] = Append(@, NewTurn)]
                /\ UNCHANGED <<vector_store, commits, retrieved>>
                /\ UNCHANGED <<graphVars, engineVars, clientVars, pageVars, workflow>>
            /\ UNCHANGED uiVars

\* The turn takes the session mutex and enters the graph; the context for
\* its prompt comes from get_relevant_context.
begin_turn ==
    \* MemoryManager.get_relevant_context, part_008:1268-1287
    \* similarity_search(question, k=k): at most k documents of the store; the
    \* ranking by similarity is left open.
    LET SimilaritySearch(store, k) == {docs \in SUBSET store : Cardinality(docs) <= k}
    IN
            \E s \in Sessions :
                LET i == NextWaiting(s)
                    dir == active_generators[s].memory_persist_dir
                IN /\ i # 0
                   /\ MutexFree(s)
                   /\ session_turns' = [session_turns EXCEPT ![s][i].phase = "running"]
                   /\ \E docs \in SimilaritySearch(vector_store[dir], DefaultK) :
                         retrieved' = [session |-> s, docs |-> docs]
                   /\ UNCHANGED <<active_generators, vector_store, commits>>
                   /\ UNCHANGED <<graphVars, engineVars, clientVars, pageVars, workflow>>
            /\ UNCHANGED uiVars

\* A running turn executes the nodes of its path up to the terminal node.
run_node ==
    \E s \in Sessions :
        \E i \in 1..Len(session_turns[s]) :
            /\ session_turns[s][i].phase = "running"
            /\ session_turns[s][i].nodes = 0
            /\ session_turns' = [session_turns EXCEPT ![s][i].nodes = 1]
            /\ UNCHANGED <<active_generators, vector_store, commits, retrieved>>
            /\ UNCHANGED <<graphVars, engineVars, clientVars, pageVars, workflow>>
    /\ UNCHANGED uiVars

\* The turn has reached its terminal node: store_conversation writes it to
\* the session's Memory and the mutex is released.
commit_turn ==
    \* MemoryManager.store_conversation, part_008:1243-1264
    \* The document store_conversation adds for turn i of session s.
    LET ConversationDoc(s, i) == [session |-> s, turn |-> i]
    IN
            \E s \in Sessions :
                \E i \in 1..Len(session_turns[s]) :
                    LET dir == active_generators[s].memory_persist_dir IN
                    /\ session_turns[s][i].phase = "running"
                    /\ session_turns[s][i].nodes = 1
                    /\ session_turns' = [session_turns EXCEPT ![s][i].phase = "done"]
                    /\ vector_store' =
                          [vector_store EXCEPT ![dir] = @ \cup {ConversationDoc(s, i)}]
                    /\ commits' = [commits EXCEPT ![s] = Append(@, i)]
                    /\ UNCHANGED <<active_generators, retrieved>>
                    /\ UNCHANGED <<graphVars, engineVars, clientVars, pageVars, workflow>>
            /\ UNCHANGED uiVars

(***************************************************************************)
(* Result tables: execute_select stores the rows of a SELECT under a fresh  *)
(* table_id, get_page serves pages of the stored rows, and the client asks *)
(* for pages from the pagination controls of its message.                  *)
(***************************************************************************)
\* page_size_default and page_size_max.
PageSizeDefault == 10
PageSizeMax == 200

\* page_size is clamped to [1, page_size_max].
ClampPageSize(page_size) ==
    IF page_size < 1 THEN 1
    ELSE IF page_size > PageSizeMax THEN PageSizeMax
    ELSE page_size

\* ceil(total_rows / page_size)
TotalPages(total_rows, page_size) == (total_rows + page_size - 1) \div page_size

Min(a, b) == IF a < b THEN a ELSE b

PageRowsZeroIndexed(rows, page, page_size) ==
    SubSeq(rows, page * page_size + 1, Min((page + 1) * page_size, Len(rows)))

\* The rows of page `page`: (page-1)*page_size+1 .. min(page*page_size, total).
PageRows(rows, page, page_size) ==
    SubSeq(rows, (page - 1) * page_size + 1, Min(page * page_size, Len(rows)))

PaginationNextOnLastPage(table_id, page, page_size, total_rows) ==
    [ table_id |-> table_id, current_page |-> page,
      total_pages |-> TotalPages(total_rows, page_size),
      total_rows |-> total_rows, page_size |-> page_size,
      has_next |-> page <= TotalPages(total_rows, page_size),
      has_prev |-> page > 1 ]

Pagination(table_id, page, page_size, total_rows) ==
    [ table_id |-> table_id, current_page |-> page,
      total_pages |-> TotalPages(total_rows, page_size),
      total_rows |-> total_rows, page_size |-> page_size,
      has_next |-> page < TotalPages(total_rows, page_size),
      has_prev |-> page > 1 ]

PageOfUnchecked(rows, table_id, page, page_size) ==
    [ error |-> None,
      results |-> IF page < 1 \/ page > TotalPages(Len(rows),
                                                   ClampPageSize(page_size))
                  THEN <<>>
                  ELSE PageRows(rows, page, ClampPageSize(page_size)),
      pagination |-> Pagination(table_id, page, ClampPageSize(page_size),
                                Len(rows)) ]

\* The page of stored rows a request gets, or invalid_page.
PageOf(rows, table_id, page, page_size) ==
    LET ps == ClampPageSize(page_size) IN
    IF page < 1 \/ page > TotalPages(Len(rows), ps)
    THEN [ error |-> "invalid_page", results |-> <<>>,
           pagination |-> Pagination(table_id, page, ps, Len(rows)) ]
    ELSE [ error |-> None, results |-> PageRows(rows, page, ps),
           pagination |-> Pagination(table_id, page, ps, Len(rows)) ]

\* get_page(table_id, page, page_size) against registry reg.
GetPage(reg, table_id, page, page_size) ==
    PageOf(reg[table_id].rows, table_id, page, page_size)

StoreResultOverwriting(reg, rows) ==
    IF reg = <<>> THEN <<[rows |-> rows]>>
    ELSE [reg EXCEPT ![Len(reg)] = [rows |-> rows]]

\* Results are stored under a freshly generated table_id.
StoreResult(reg, rows) == Append(reg, [rows |-> rows])

PageIdle ==
    \* handleSendMessage, UserProfile.tsx:419-427
    LET NoSqlResult ==
            [table_id |-> 0, data |-> <<>>, pagination |-> Pagination(0, 0, 1, 0)]
    \* get_page (spec 4.4)
        NoPage ==
            [ table_id |-> 0, page |-> 0, page_size |-> 0, by |-> None,
              response |-> [error |-> None, results |-> <<>>,
                            pagination |-> Pagination(0, 0, 1, 0)] ]
    IN
            /\ result_tables = <<>>
            /\ last_page = NoPage
            /\ sqlResult = NoSqlResult

\* A SELECT turn completes: the rows are stored and the client's message
\* shows the first page.
execute_select ==
    \* execute_select result rows (spec 4.4)
    \* The result sets of the SELECTs: n rows in ascending or descending order.
    LET ResultSets ==
            \* execute_select result rows (spec 4.4)
            \* The sizes of the result sets: empty, and around MaxRows.
            LET RowCounts == {0} \cup ((MaxRows - 1)..MaxRows)
            IN
                    UNION {{[i \in 1..n |-> i], [i \in 1..n |-> n + 1 - i]} : n \in RowCounts}
    \* execute_select envelope (spec 6)
    \* The envelope fields of a SELECT that completed with rows: the first page.
        SelectEnvelope(rows, table_id) ==
            [ error |-> None,
              results |-> PageRows(rows, 1, PageSizeDefault),
              pagination |-> Pagination(table_id, 1, PageSizeDefault, Len(rows)) ]
    IN
            /\ Len(result_tables) < MaxTables
            /\ \E rows \in ResultSets :
                  LET reg == StoreResult(result_tables, rows)
                      table_id == Len(reg)
                      env == SelectEnvelope(reg[table_id].rows, table_id)
                  IN /\ result_tables' = reg
                     /\ last_page' = [ table_id |-> table_id, page |-> 1,
                                       page_size |-> PageSizeDefault, by |-> "select",
                                       response |-> env ]
                     /\ sqlResult' = [ table_id |-> table_id, data |-> env.results,
                                       pagination |-> env.pagination ]
            /\ UNCHANGED <<graphVars, engineVars, clientVars, sessionVars, workflow>>
            /\ UNCHANGED uiVars

\* GET /sessions/{session_id}/results/{table_id}?page=..&page_size=.. from
\* any caller.
get_page ==
    \* Get paginated results, part_005:202-205
    LET Pages == 0..MaxPage
    \* Get paginated results, part_005:202-205
        PageSizes == {0, 5, PageSizeDefault, PageSizeMax + 50}
    IN
            /\ \E table_id \in 1..Len(result_tables), page \in Pages,
                  page_size \in PageSizes :
                  last_page' = [ table_id |-> table_id, page |-> page,
                                 page_size |-> page_size, by |-> "get_page",
                                 response |-> GetPage(result_tables, table_id, page,
                                                      page_size) ]
            /\ UNCHANGED <<result_tables, sqlResult>>
            /\ UNCHANGED <<graphVars, engineVars, clientVars, sessionVars, workflow>>
            /\ UNCHANGED uiVars

\* handlePageChange(newPage) of the result's pagination controls: a page
\* outside [1, total_pages] is refused in the client, any other is fetched
\* with getPaginatedResults (page_size left at its default) and shown.
handlePageChange ==
    \* Get paginated results, part_005:202-205
    LET Pages == 0..MaxPage
    IN
            /\ sqlResult.table_id # 0
            /\ \E newPage \in Pages :
                  IF newPage < 1 \/ newPage > sqlResult.pagination.total_pages
                  THEN /\ last_page' = [last_page EXCEPT !.by = "refused"]
                       /\ UNCHANGED sqlResult
                  ELSE LET result == GetPage(result_tables, sqlResult.table_id, newPage,
                                             PageSizeDefault)
                       IN /\ last_page' = [ table_id |-> sqlResult.table_id,
                                            page |-> newPage,
                                            page_size |-> PageSizeDefault,
                                            by |-> "handlePageChange",
                                            response |-> result ]
                          /\ sqlResult' =
                                IF result.error = None
                                THEN [ table_id |-> result.pagination.table_id,
                                       data |-> result.results,
                                       pagination |-> result.pagination ]
                                ELSE sqlResult
            /\ UNCHANGED result_tables
            /\ UNCHANGED <<graphVars, engineVars, clientVars, sessionVars, workflow>>
            /\ UNCHANGED uiVars

(***************************************************************************)
(* AnalyticalManager.process_analytical_workflow, step by step: the        *)
(* questions of the plan, the queries generated for each question, their   *)
(* execution, and the returned report.                                     *)
(***************************************************************************)

WorkflowIdle ==
    \* AnalyticalManager.process_analytical_workflow, part_008:1122-1132
    LET NoReport ==
            [ success |-> FALSE, query_type |-> None, error |-> None, tables |-> <<>>,
              analytical_questions |-> <<>>, total_queries_executed |-> 0 ]
    IN
            workflow =
                [ phase |-> "idle", questions |-> <<>>, i |-> 0, queries |-> 0,
                  started |-> <<>>, running |-> {}, analytical_results |-> <<>>,
                  attempted |-> {}, failed |-> {}, result |-> NoReport ]

AwaitsNothing(w) == TRUE

\* Each execute_single_query is awaited before the loop goes on: nothing
\* else of the workflow starts while a query is running.
AwaitsPrevious(w) == w.running = {}

\* The queries of question i that have been started.
StartedOf(w, i) == {q \in 1..Len(w.started) : w.started[q][1] = i}

\* _format_results_as_tables(analytical_results): one table per result, in
\* the order of the results.
FormatResultsAsTables(analytical_results) ==
    [n \in 1..Len(analytical_results) |->
        [ name |-> analytical_results[n].question,
          question_number |-> analytical_results[n].question_number,
          query_number |-> analytical_results[n].query_number ]]

\* Step 1: generate the analytical questions.
process_analytical_workflow ==
    /\ workflow.phase = "idle"
    /\ \E questions \in SeqUpTo(Questions, MaxPlan) \ {<<>>} :
          workflow' = [workflow EXCEPT !.phase = "executing",
                                       !.questions = questions,
                                       !.i = 0, !.queries = 0]
    /\ UNCHANGED <<graphVars, engineVars, clientVars, sessionVars, pageVars>>
    /\ UNCHANGED uiVars

\* Steps 2a-2c for the next question: column exploration, enhanced context
\* and query generation. The calls are awaited with no handler around
\* them, so an exception of one of them leaves the workflow.
generate_flexible_queries ==
    /\ workflow.phase = "executing"
    /\ workflow.i < Len(workflow.questions)
    /\ Cardinality(StartedOf(workflow, workflow.i)) = workflow.queries
    /\ AwaitsPrevious(workflow)
    /\ \/ \E n \in 1..MaxQueries :
             workflow' = [workflow EXCEPT !.i = @ + 1, !.queries = n,
                                          !.attempted = @ \cup {workflow.i + 1}]
       \/ workflow' = [workflow EXCEPT !.i = @ + 1, !.queries = 0,
                                       !.phase = "raised",
                                       !.attempted = @ \cup {workflow.i + 1},
                                       !.failed = @ \cup {workflow.i + 1}]
    /\ UNCHANGED <<graphVars, engineVars, clientVars, sessionVars, pageVars>>
    /\ UNCHANGED uiVars

\* Step 2d: the next generated query of the current question goes to
\* execute_single_query.
execute_single_query ==
    /\ workflow.phase = "executing"
    /\ workflow.i >= 1
    /\ Cardinality(StartedOf(workflow, workflow.i)) < workflow.queries
    /\ AwaitsPrevious(workflow)
    /\ LET q == <<workflow.i, Cardinality(StartedOf(workflow, workflow.i)) + 1>>
       IN workflow' = [workflow EXCEPT !.started = Append(@, q),
                                       !.running = @ \cup {q}]
    /\ UNCHANGED <<graphVars, engineVars, clientVars, sessionVars, pageVars>>
    /\ UNCHANGED uiVars

\* A running query comes back: its result is appended if result["success"].
query_returns ==
    /\ workflow.phase = "executing"
    /\ \E q \in workflow.running, success \in BOOLEAN :
          workflow' =
              [workflow EXCEPT
                  !.running = @ \ {q},
                  !.analytical_results =
                      IF success
                      THEN Append(@, [ question |-> workflow.questions[q[1]],
                                       question_number |-> q[1],
                                       query_number |-> q[2] ])
                      ELSE @,
                  !.failed = IF success THEN @ ELSE @ \cup {q[1]}]
    /\ UNCHANGED <<graphVars, engineVars, clientVars, sessionVars, pageVars>>
    /\ UNCHANGED uiVars

\* Step 3 and the return: the comprehensive analysis over the results.
generate_comprehensive_analysis ==
    \* AnalyticalManager.process_analytical_workflow, part_008:1122-1132
    \* The value process_analytical_workflow returns.
    LET WorkflowReturn(w) ==
            [ success |-> TRUE, query_type |-> "analysis", error |-> None,
              tables |-> FormatResultsAsTables(w.analytical_results),
              analytical_questions |-> w.questions,
              total_queries_executed |-> Len(w.analytical_results) ]
    IN
            /\ workflow.phase = "executing"
            /\ workflow.i = Len(workflow.questions)
            /\ Cardinality(StartedOf(workflow, workflow.i)) = workflow.queries
            /\ workflow.running = {}
            /\ workflow' = [workflow EXCEPT !.phase = "returned",
                                            !.result = WorkflowReturn(workflow)]
            /\ UNCHANGED <<graphVars, engineVars, clientVars, sessionVars, pageVars>>
            /\ UNCHANGED uiVars

(***************************************************************************)
(* SqlEditor: the cells of the editor, the handlers that change them, and  *)
(* executeCell and executeBatch with their executeSQL calls in flight. A   *)
(* handler works on the cells of the render it was created in.             *)
(***************************************************************************)

\* A cell as the effect on initialQueries or addCell creates it.
NewCell(id, sql) ==
    [id |-> id, sql |-> sql, result |-> None, error |-> None,
     isExecuting |-> FALSE]

\* initialQueries.map(...), or one empty cell when there are none.
InitialCells(initialQueries) ==
    IF initialQueries = <<>> THEN <<NewCell(1, Blank)>>
    ELSE [i \in 1..Len(initialQueries) |-> NewCell(i, initialQueries[i])]

NoResponse ==
    [ kind |-> None, success |-> FALSE, threw |-> FALSE,
      has_query_results |-> FALSE, query_results |-> <<>>,
      failed_at_query |-> 0, cells |-> <<>>, cellId |-> 0 ]

EditorIdle ==
    editor = [ cells |-> <<>>, isBatchExecuting |-> FALSE, calls |-> {},
               nextId |-> 0, edits |-> 0, executions |-> 0,
               response |-> NoResponse ]

(***************************************************************************)
(* ChatBot: the messages of the chat, handleSendMessage step by step with  *)
(* its calls in flight, loadSessionMessages, and the user the auth context *)
(* provides to the component.                                              *)
(***************************************************************************)
Roles == {"admin", "viewer"}

NoPagination == [present |-> FALSE, table_id |-> None, current_page |-> 0]

\* pagination of a page response: its table_id and current_page.
PaginationOf(table_id, page) ==
    [present |-> TRUE, table_id |-> table_id, current_page |-> page]

NoMsgResult ==
    [ present |-> FALSE, data |-> 0, pagination |-> NoPagination,
      table_id |-> None, visualization_recommendations |-> None,
      saved_charts |-> None ]

NoAnalysis == [present |-> FALSE, tables |-> <<>>]

\* A chat message without results: a user, system or error message.
TextMessage(id, isUser) ==
    [ id |-> id, isUser |-> isUser, query_type |-> None,
      sqlEditor |-> NoEditor, sqlResult |-> NoMsgResult,
      analysisResult |-> NoAnalysis ]

\* The bot message handleSendMessage builds from the result of executeQuery,
\* u being the user and settings of the render the handler belongs to.
BotMessage(id, result, u) ==
    \* handleSendMessage, UserProfile.tsx:425-425
    \* a || b for table ids.
    LET OrElse(a, b) == IF a # None THEN a ELSE b
    \* handleSendMessage, UserProfile.tsx:419-429
    \* botMessage.sqlResult = {sql, data, error, pagination, table_id, ...}
        SqlResultOf(result_) ==
            [ present |-> TRUE, data |-> result_.results,
              pagination |-> result_.pagination,
              table_id |-> OrElse(result_.table_id, result_.pagination.table_id),
              visualization_recommendations |-> result_.visualization_recommendations,
              saved_charts |-> result_.saved_charts ]
    IN
            [ id |-> id, isUser |-> FALSE, query_type |-> result.query_type,
              sqlEditor |-> EditorFor(result, u),
              sqlResult |-> IF result.query_type \in {"sql", "edit_sql"}
                            THEN SqlResultOf(result) ELSE NoMsgResult,
              analysisResult |-> IF result.query_type = "analysis"
                                 THEN result.tables ELSE NoAnalysis ]

\* One analysis table of a response.
AnalysisTable(table_id) ==
    [table_id |-> table_id, results |-> 1, pagination |-> PaginationOf(table_id, 1)]

\* What executeQuery may hand to handleSendMessage.
ChatResults ==
    \* ChatMessage.query_type, UserProfile.tsx:130-130
    \* query_type of the server's envelope.
    LET ServerQueryTypes ==
            {"conversational", "sql", "edit_sql", "analysis", "edit_execution"}
    \* response envelope (spec 5, query_type, sql, pagination, tables)
    \* The envelopes the server may answer a question with.
        ChatEnvelopes ==
            [ query_type : ServerQueryTypes, success : {TRUE}, text : {"reply"},
              sql : {<<>>, JoinSql(<<Command("UPDATE")>>),
                     JoinSql(<<Command("UPDATE"), Command("DELETE")>>)},
              requires_confirmation : BOOLEAN, is_edit_query : BOOLEAN,
              verification_result : {None},
              results : {1}, table_id : {"t1"},
              pagination : {PaginationOf("t1", 1)},
              visualization_recommendations : {"bar"}, saved_charts : {"c1"},
              tables : {NoAnalysis,
                        [present |-> TRUE,
                         tables |-> <<AnalysisTable("t2"), AnalysisTable("t3")>>]} ]
    IN
            { ExecuteQuerySwitch(e) : e \in ChatEnvelopes } \cup { ExecuteQueryCatch }

RenderedWithoutRoleCheck(message, sessionId, u) ==
    message.sqlEditor.attached /\ sessionId # None

\* {message.sqlEditor && sessionId && user?.role === 'admin' && <SqlEditor/>}
Rendered(message, sessionId, u) ==
    message.sqlEditor.attached /\ sessionId # None /\ u.role = "admin"

NoPageResponse ==
    \* handlePageChange, UserProfile.tsx:523-523
    LET NoPageRequest == [n |-> 0, messageId |-> 0, tableId |-> None, newPage |-> 0]
    IN
            [ request |-> NoPageRequest, threw |-> FALSE,
              result |-> [results |-> 0, pagination |-> NoPagination] ]

ChatIdle ==
    \* ChatBot, UserProfile.tsx:167-174
    \* useState<ChatMessage[]>([{id: 'welcome', ...}])
    LET Welcome == TextMessage(0, FALSE)
    \* handleSendMessage, UserProfile.tsx:353-368
        NoSend == [pc |-> "idle", user |-> [role |-> None, edit_mode_enabled |-> FALSE],
                   outcome |-> None]
    IN
            chat = [ messages |-> <<Welcome>>, isProcessing |-> FALSE,
                     sessionId |-> None, clock |-> 1, send |-> NoSend, sent |-> 0, calls |-> 0,
                     pending |-> {}, page_calls |-> 0,
                     page_response |-> NoPageResponse ]

FinallySkipped(c) == c

\* finally { setIsProcessing(false) }
Finally(c) == [c EXCEPT !.isProcessing = FALSE]

\* setMessages(prev => [...prev, message])
AddMessage(c, message) ==
    [c EXCEPT !.messages = Append(@, message), !.clock = @ + 1]

\* handleSendMessage up to its first await: the user message is added,
\* isProcessing is set, and createSession or executeQuery is called.
handleSendMessage_submit ==
    /\ chat.send.pc = "idle"
    /\ ~chat.isProcessing
    /\ chat.calls < MaxSends
    /\ chat' =
          [AddMessage(chat, TextMessage(chat.clock, TRUE)) EXCEPT
              !.isProcessing = TRUE,
              !.calls = @ + 1,
              !.send = [pc |-> IF chat.sessionId = None THEN "createSession"
                               ELSE "executeQuery",
                        user |-> user, outcome |-> None],
              !.sent = IF chat.sessionId = None THEN @ ELSE @ + 1]
    /\ UNCHANGED <<graphVars, engineVars, clientVars, sessionVars, pageVars>>
    /\ UNCHANGED <<workflow, editor, auth>>

\* createSession settles: on success the session is stored, a system
\* message is added and executeQuery is called; on failure the error
\* message is added, isProcessing is reset and the handler returns.
createSession_returns ==
    /\ chat.send.pc = "createSession"
    /\ \/ chat' =
             [AddMessage(chat, TextMessage(chat.clock, FALSE)) EXCEPT
                 !.sessionId = "s1",
                 !.send.pc = "executeQuery",
                 !.sent = @ + 1]
       \/ chat' =
             [Finally([AddMessage(chat, TextMessage(chat.clock, FALSE))
                          EXCEPT !.isProcessing = FALSE]) EXCEPT
                 !.send.pc = "idle",
                 !.send.outcome = "session_failed"]
    /\ UNCHANGED <<graphVars, engineVars, clientVars, sessionVars, pageVars>>
    /\ UNCHANGED <<workflow, editor, auth>>

\* executeQuery settles: the bot message is built and added, or the catch
\* block adds an error message; finally resets isProcessing.
executeQuery_returns ==
    \* handleSendMessage, UserProfile.tsx:476-485
    \* result.tables.map(...) raises a TypeError when the response has no tables.
    LET Throws(result) == result.query_type = "analysis" /\ ~result.tables.present
    IN
            /\ chat.send.pc = "executeQuery"
            /\ \E result \in ChatResults :
                  chat' =
                     [Finally(AddMessage(chat,
                          IF Throws(result) THEN TextMessage(chat.clock, FALSE)
                          ELSE BotMessage(chat.clock, result, chat.send.user))) EXCEPT
                         !.send.pc = "idle",
                         !.send.outcome = IF Throws(result) THEN "query_error"
                                          ELSE "query_success"]
            /\ UNCHANGED <<graphVars, engineVars, clientVars, sessionVars, pageVars>>
            /\ UNCHANGED <<workflow, editor, auth>>

\* handleSessionSelect and its loadSessionMessages: the session becomes the
\* current one and its stored messages replace the chat, followed by a
\* system message.
loadSessionMessages ==
    \* ChatMessage.query_type, UserProfile.tsx:130-130
    \* query_type of the server's envelope.
    LET ServerQueryTypes ==
            {"conversational", "sql", "edit_sql", "analysis", "edit_execution"}
    \* loadSessionMessages, UserProfile.tsx:748-799
    \* loadSessionMessages: the ChatMessage of one stored message.
        ConvertedMessage(id, queryResult, u) ==
            LET queryType == IF queryResult.query_type = "fetch" THEN "sql"
                             ELSE queryResult.query_type
            IN [ id |-> id, isUser |-> FALSE, query_type |-> queryType,
                 sqlEditor |->
                     IF queryType = "edit_sql" /\ queryResult.sql # <<>>
                            /\ u.role = "admin"
                     THEN [attached |-> TRUE, cells |-> SplitSql(queryResult.sql),
                           requiresConfirmation |-> TRUE]
                     ELSE NoEditor,
                 sqlResult |->
                     IF queryResult.sql # <<>>
                     THEN [NoMsgResult EXCEPT !.present = TRUE, !.data = 1]
                     ELSE NoMsgResult,
                 analysisResult |-> NoAnalysis ]
    \* loadSessionMessages, UserProfile.tsx:745-766
    \* The query_result records getSessionMessages may return for a message.
        StoredQueryResults ==
            [ query_type : ServerQueryTypes \cup {"fetch"},
              sql : {<<>>, JoinSql(<<Command("UPDATE")>>)} ]
    IN
            /\ chat.calls < MaxSends
            /\ \E history \in SeqUpTo(StoredQueryResults, MaxHistory) \ {<<>>} :
                  chat' =
                     [chat EXCEPT
                         !.sessionId = "s1",
                         !.messages =
                             Append([i \in 1..Len(history) |->
                                        ConvertedMessage(chat.clock + i - 1, history[i],
                                                         user)],
                                    TextMessage(chat.clock + Len(history), FALSE)),
                         !.clock = @ + Len(history) + 1,
                         !.calls = @ + 1]
            /\ UNCHANGED <<graphVars, engineVars, clientVars, sessionVars, pageVars>>
            /\ UNCHANGED <<workflow, editor, auth>>

\* The auth context hands a new user to the component: setUser(userData)
\* after login or loadUserFromToken, setUser(null) on logout.
setUser ==
    /\ \E role \in Roles \cup {None}, edit_mode_enabled \in BOOLEAN :
          /\ role # user.role
          /\ role = None => ~edit_mode_enabled
          /\ user' = [role |-> role, edit_mode_enabled |-> edit_mode_enabled]
    /\ UNCHANGED <<sqlEditor, chat>>
    /\ UNCHANGED <<graphVars, engineVars, sessionVars, pageVars>>
    /\ UNCHANGED <<workflow, editor, auth>>


(***************************************************************************)
(* AuthProvider: the auth_token of localStorage, the user and settings of  *)
(* the context, and login, logout and loadUserFromToken with their calls   *)
(* in flight.                                                              *)
(***************************************************************************)

\* localStorage without an auth_token, and the access_token of an account.
NoToken == [present |-> FALSE, account |-> None]

\* useState of the provider; localStorage is empty before the first login.
AuthIdle ==
    \* AuthProvider.login, part_004:108-110
    LET NoLogin == [pc |-> "idle", email |-> None, outcome |-> None]
    IN
            auth = [ auth_token |-> NoToken, user |-> None, settings |-> None,
                     error |-> None, loading |-> TRUE, login |-> NoLogin,
                     mount |-> "loadUserFromToken", logins |-> 0 ]

\* loadUserFromToken, the effect run on mount: without a token nothing is
\* loaded; with one, getCurrentUser gives the user or the token is removed.
loadUserFromToken ==
    /\ auth.mount = "loadUserFromToken"
    /\ \/ /\ ~auth.auth_token.present
          /\ auth' = [auth EXCEPT !.loading = FALSE, !.mount = "done"]
       \/ /\ auth.auth_token.present
          /\ \/ auth' = [auth EXCEPT !.user = auth.auth_token.account,
                                     !.settings =
                                         IF auth.auth_token.account = "admin"
                                         THEN "settings" ELSE @,
                                     !.loading = FALSE, !.mount = "done"]
             \/ auth' = [auth EXCEPT !.auth_token = NoToken,
                                     !.loading = FALSE, !.mount = "done"]
    /\ UNCHANGED <<graphVars, engineVars, clientVars, sessionVars, pageVars>>
    /\ UNCHANGED <<workflow, chat, editor>>

\* login(email, password) up to its first await: apiLogin is called.
login_call ==
    \* AuthProvider.login, part_004:108-112
    \* The accounts that can sign in, by role, and the token issued to each.
    LET Accounts == Roles
    IN
            /\ auth.login.pc = "idle"
            /\ auth.logins < MaxLogins
            /\ \E email \in Accounts :
                  auth' = [auth EXCEPT !.error = None, !.loading = TRUE,
                                       !.logins = @ + 1,
                                       !.login = [pc |-> "apiLogin", email |-> email,
                                                  outcome |-> None]]
            /\ UNCHANGED <<graphVars, engineVars, clientVars, sessionVars, pageVars>>
            /\ UNCHANGED <<workflow, chat, editor>>

\* apiLogin settles: the token is stored and getCurrentUser is called, or
\* the catch block reports the error.
apiLogin_returns ==
    \* AuthProvider.login, part_004:124-134
    \* catch (err) { setError(errorMessage) } finally { setLoading(false) }
    LET LoginFailed(a) ==
            [a EXCEPT !.error = "Failed to login", !.loading = FALSE,
                      !.login.pc = "idle", !.login.outcome = "error"]
    \* AuthProvider.login, part_004:111-112
        TokenOf(account) == [present |-> TRUE, account |-> account]
    IN
            /\ auth.login.pc = "apiLogin"
            /\ \/ auth' = [auth EXCEPT !.auth_token = TokenOf(auth.login.email),
                                       !.login.pc = "getCurrentUser"]
               \/ auth' = LoginFailed(auth)
            /\ UNCHANGED <<graphVars, engineVars, clientVars, sessionVars, pageVars>>
            /\ UNCHANGED <<workflow, chat, editor>>

\* getCurrentUser settles: the user is set and, for an admin, the settings
\* are loaded, or the catch block reports the error.
getCurrentUser_returns ==
    \* AuthProvider.login, part_004:124-134
    \* catch (err) { setError(errorMessage) } finally { setLoading(false) }
    LET LoginFailed(a) ==
            [a EXCEPT !.error = "Failed to login", !.loading = FALSE,
                      !.login.pc = "idle", !.login.outcome = "error"]
    IN
            /\ auth.login.pc = "getCurrentUser"
            /\ \/ auth' = [auth EXCEPT !.user = auth.login.email,
                                       !.login.pc = IF auth.login.email = "admin"
                                                    THEN "loadSettings" ELSE "idle",
                                       !.login.outcome = IF auth.login.email = "admin"
                                                         THEN None ELSE "ok",
                                       !.loading = IF auth.login.email = "admin"
                                                   THEN @ ELSE FALSE]
               \/ auth' = LoginFailed(auth)
            /\ UNCHANGED <<graphVars, engineVars, clientVars, sessionVars, pageVars>>
            /\ UNCHANGED <<workflow, chat, editor>>

\* loadSettings settles; it catches its own error, and login goes on.
loadSettings_returns ==
    \* AuthProvider.login, part_004:123-134
    \* router.push('/dashboard') and finally { setLoading(false) }
    LET LoginSucceeded(a) ==
            [a EXCEPT !.loading = FALSE, !.login.pc = "idle", !.login.outcome = "ok"]
    IN
            /\ auth.login.pc = "loadSettings"
            /\ \/ auth' = LoginSucceeded([auth EXCEPT !.settings = "settings"])
               \/ auth' = LoginSucceeded(auth)
            /\ UNCHANGED <<graphVars, engineVars, clientVars, sessionVars, pageVars>>
            /\ UNCHANGED <<workflow, chat, editor>>

\* logout
logout ==
    /\ auth.auth_token.present \/ auth.user # None
    /\ auth' = [auth EXCEPT !.auth_token = NoToken, !.user = None,
                            !.settings = None]
    /\ UNCHANGED <<graphVars, engineVars, clientVars, sessionVars, pageVars>>
    /\ UNCHANGED <<workflow, chat, editor>>

(***************************************************************************)
(* ChatBot.handlePageChange: a page request of a message's table, with the *)
(* getPaginatedResults call in flight, and the update of the messages.     *)
(***************************************************************************)

CurrentTableIdRequested(result, tableId) == tableId

\* const currentTableId = result.pagination?.table_id || tableId
CurrentTableId(result, tableId) ==
    \* handleSendMessage, UserProfile.tsx:425-425
    \* a || b for table ids.
    LET OrElse(a, b) == IF a # None THEN a ELSE b
    IN
                                           OrElse(result.pagination.table_id, tableId)

IsPagedAny(msg, messageId) == TRUE

\* msg.id === messageId
IsPaged(msg, messageId) == msg.id = messageId

\* The page controls of a message: onPageChange(page) calls
\* handlePageChange(message.id, table_id, page) with the table_id the
\* message holds; the handler sets isProcessing and calls
\* getPaginatedResults.
handlePageChange_request ==
    \* handlePageChange, UserProfile.tsx:523-523
    LET ChatPages == 1..MaxChatPage
    IN
            /\ chat.sessionId # None
            /\ chat.page_calls < MaxPageCalls
            /\ \E i \in 1..Len(chat.messages), newPage \in ChatPages :
                  LET msg == chat.messages[i] IN
                  \E tableId \in
                        (IF msg.sqlResult.present THEN {msg.sqlResult.table_id} ELSE {})
                        \cup { msg.analysisResult.tables[k].table_id :
                                  k \in 1..Len(msg.analysisResult.tables) } :
                     /\ tableId # None
                     /\ chat' =
                           [chat EXCEPT
                               !.isProcessing = TRUE,
                               !.page_calls = @ + 1,
                               !.pending = @ \cup
                                   {[ n |-> chat.page_calls + 1, messageId |-> msg.id,
                                      tableId |-> tableId, newPage |-> newPage ]}]
            /\ UNCHANGED <<graphVars, engineVars, clientVars, sessionVars, pageVars>>
            /\ UNCHANGED <<workflow, editor, auth>>

\* getPaginatedResults settles: the messages are updated with the page, or
\* the catch block adds an error message; finally resets isProcessing.
getPaginatedResults_returns ==
    \* PaginationInfo.table_id, UserProfile.tsx:95-97
    LET TableIds == {"t1", "t2", "t3", "t4"}
    \* handlePageChange, UserProfile.tsx:546-586
    \* The updater handed to setMessages, applied to the messages prev.
        UpdatePaged(prev, messageId, tableId, result) ==
            LET currentTableId == CurrentTableId(result, tableId) IN
            [ i \in 1..Len(prev) |->
                LET msg == prev[i] IN
                IF IsPaged(msg, messageId) /\ msg.sqlResult.present
                THEN [msg EXCEPT !.sqlResult.data = result.results,
                                 !.sqlResult.pagination = result.pagination,
                                 !.sqlResult.table_id = currentTableId]
                ELSE IF IsPaged(msg, messageId) /\ msg.analysisResult.present
                THEN [msg EXCEPT !.analysisResult.tables =
                         [ k \in 1..Len(@) |->
                             IF @[k].table_id = tableId
                             THEN [@[k] EXCEPT !.results = result.results,
                                               !.pagination = result.pagination,
                                               !.table_id = currentTableId]
                             ELSE @[k] ]]
                ELSE msg ]
    \* Pagination endpoint contract (spec 5, get_page)
    \* The page responses of the server to a request for tableId: the rows of
    \* the page and its pagination, under the same table_id or, when the engine
    \* re-materialized the result, under a fresh one; a response may come
    \* without pagination.
        PageResponses(messages, tableId, newPage) ==
            \* ChatMessage, UserProfile.tsx:131-143
            \* The table ids on the messages of the chat.
            LET UsedTableIds(messages_) ==
                    { messages_[i].sqlResult.table_id : i \in 1..Len(messages_) } \cup
                    UNION { { messages_[i].analysisResult.tables[k].table_id :
                                k \in 1..Len(messages_[i].analysisResult.tables) } :
                            i \in 1..Len(messages_) }
            IN
                    [ results : {newPage + 1},
                      pagination :
                          { PaginationOf(id, newPage) :
                              id \in {tableId} \cup (TableIds \ UsedTableIds(messages)) }
                          \cup {NoPagination} ]
    IN
            /\ \E r \in chat.pending :
                  \/ \E result \in PageResponses(chat.messages, r.tableId, r.newPage) :
                        chat' =
                           [Finally(chat) EXCEPT
                               !.messages = UpdatePaged(@, r.messageId, r.tableId, result),
                               !.pending = @ \ {r},
                               !.page_response =
                                   [request |-> r, threw |-> FALSE, result |-> result]]
                  \/ chat' =
                        [Finally(AddMessage(chat, TextMessage(chat.clock, FALSE))) EXCEPT
                            !.pending = @ \ {r},
                            !.page_response =
                                [NoPageResponse EXCEPT !.request = r, !.threw = TRUE]]
            /\ UNCHANGED <<graphVars, engineVars, clientVars, sessionVars, pageVars>>
            /\ UNCHANGED <<workflow, editor, auth>>

\* A chat in a session after two answered questions.
InitChatPage ==
    \* ChatBot, UserProfile.tsx:167-174
    \* useState<ChatMessage[]>([{id: 'welcome', ...}])
    LET Welcome == TextMessage(0, FALSE)
    \* handleSendMessage, UserProfile.tsx:353-368
        NoSend == [pc |-> "idle", user |-> [role |-> None, edit_mode_enabled |-> FALSE],
                   outcome |-> None]
    \* handleSendMessage, UserProfile.tsx:419-487
    \* Results with rows to page through: a SELECT and an analysis.
        PagedResults ==
            { result \in ChatResults :
                /\ result.query_type \in {"sql", "analysis"}
                /\ result.query_type = "sql" => result.sql # <<>>
                /\ result.query_type = "analysis" => result.tables.present
                /\ ~result.is_edit_query /\ ~result.requires_confirmation }
    IN
            /\ GraphIdle
            /\ WorkflowIdle
            /\ PageIdle
            /\ SessionIdle
            /\ EngineIdle
            /\ ClientIdle
            /\ EditorIdle
            /\ AuthIdle
            /\ \E r1 \in PagedResults, r2 \in PagedResults :
                  /\ r1.query_type # r2.query_type
                  /\ chat = [ messages |-> <<Welcome, BotMessage(1, r1, user),
                                             BotMessage(2, r2, user)>>,
                              isProcessing |-> FALSE, sessionId |-> "s1", clock |-> 3,
                              send |-> NoSend, sent |-> 2, calls |-> 2,
                              pending |-> {}, page_calls |-> 0,
                              page_response |-> NoPageResponse ]

NextChatPage ==
    \/ handlePageChange_request
    \/ getPaginatedResults_returns

SpecChatPage == InitChatPage /\ [][NextChatPage]_vars

(***************************************************************************)
(* SqlEditor: the answers of POST /execute-sql and the handlers.           *)
(***************************************************************************)

\* setCells(cells.map(c => c.id === cellId ? {...c, ...} : c))
\* mapped[i] being the object the arrow function builds from cells[i].
MapCell(cells, cellId, mapped) ==
    [i \in 1..Len(cells) |-> IF cells[i].id = cellId THEN mapped[i] ELSE cells[i]]

\* The cells a handler maps over after its await: those of the render in
\* which the handler was created, captured when it was called.
CellsAfterAwait(current, captured) == captured

\* A cell after a failed transaction that carries query_results, q being
\* the position looked up in query_results and compared to failed_at_query.
ShownAfterFailure(cell, q, response) ==
    IF cell.sql = Blank THEN cell
    ELSE IF q <= Len(response.query_results)
    THEN LET queryResult == response.query_results[q] IN
         [cell EXCEPT
             !.result = IF queryResult.success
                        THEN "Query executed successfully" ELSE None,
             !.error = IF queryResult.success THEN None ELSE queryResult.error]
    ELSE [cell EXCEPT
             !.result = None,
             !.error = IF q < response.failed_at_query THEN None
                       ELSE "Not executed (transaction failed)"]

Edited(e) == [e EXCEPT !.edits = @ + 1]

\* addCell
addCell ==
    /\ editor.edits < MaxEdits
    /\ Len(editor.cells) < MaxCells
    /\ editor' =
          [Edited(editor) EXCEPT
              !.cells = Append(@, NewCell(editor.nextId, Blank)),
              !.nextId = @ + 1]
    /\ UNCHANGED <<graphVars, engineVars, clientVars, sessionVars, pageVars>>
    /\ UNCHANGED <<workflow, chat, auth>>

\* removeCell(cellId)
removeCell ==
    /\ editor.edits < MaxEdits
    /\ Len(editor.cells) > 1
    /\ \E i \in 1..Len(editor.cells) :
          editor' =
             [Edited(editor) EXCEPT
                 !.cells = SelectSeq(@, LAMBDA c : c.id # editor.cells[i].id)]
    /\ UNCHANGED <<graphVars, engineVars, clientVars, sessionVars, pageVars>>
    /\ UNCHANGED <<workflow, chat, auth>>

\* updateCellSql(cellId, sql)
updateCellSql ==
    \* SqlCell, SqlEditor.tsx:5-12
    \* The statements a cell may hold; Blank is a cell whose sql trims to ''.
    LET CellSqls == {Blank, Command("UPDATE"), Command("DELETE")}
    IN
            /\ editor.edits < MaxEdits
            /\ \E i \in 1..Len(editor.cells), sql \in CellSqls :
                  /\ sql # editor.cells[i].sql
                  /\ editor' =
                        [Edited(editor) EXCEPT
                            !.cells = MapCell(@, editor.cells[i].id,
                                              [j \in 1..Len(@) |->
                                                  [@[j] EXCEPT !.sql = sql]])]
            /\ UNCHANGED <<graphVars, engineVars, clientVars, sessionVars, pageVars>>
            /\ UNCHANGED <<workflow, chat, auth>>

\* executeCell(cellId) up to its await: the cell shows the executing state
\* and executeSQL is called with its sql.
executeCell_call ==
    \* executeCell, SqlEditor.tsx:78-80
    LET Executing(c) == [c EXCEPT !.isExecuting = TRUE, !.result = None, !.error = None]
    IN
            /\ editor.executions < MaxExecutions
            /\ \E i \in 1..Len(editor.cells) :
                  LET cell == editor.cells[i] IN
                  /\ cell.sql # Blank
                  /\ ~cell.isExecuting
                  /\ editor' =
                        [editor EXCEPT
                            !.cells = MapCell(@, cell.id,
                                              [j \in 1..Len(@) |-> Executing(@[j])]),
                            !.executions = @ + 1,
                            !.calls = @ \cup {[ kind |-> "cell", cellId |-> cell.id,
                                                cells |-> editor.cells,
                                                n |-> editor.executions + 1 ]}]
            /\ UNCHANGED <<graphVars, engineVars, clientVars, sessionVars, pageVars>>
            /\ UNCHANGED <<workflow, chat, auth>>

\* The executeSQL call of an executeCell settles.
executeCell_returns ==
    \* executeCell, SqlEditor.tsx:82-100
    \* The executed cell after the executeSQL call of executeCell settled.
    LET Executed(c, response) ==
            IF response.threw
            THEN [c EXCEPT !.isExecuting = FALSE, !.error = "error"]
            ELSE [c EXCEPT !.isExecuting = FALSE,
                           !.result = IF response.success THEN "result" ELSE None,
                           !.error = IF response.success THEN None ELSE "error"]
    \* POST /sessions/{id}/execute-sql response (spec 5)
    \* The answers of POST /execute-sql to one statement.
        CellResponses == [success : BOOLEAN, threw : BOOLEAN]
    IN
            /\ \E call \in editor.calls, response \in CellResponses :
                  /\ call.kind = "cell"
                  /\ editor' =
                        [editor EXCEPT
                            !.cells =
                                LET cells == CellsAfterAwait(@, call.cells)
                                IN MapCell(cells, call.cellId,
                                           [j \in 1..Len(cells) |->
                                               Executed(cells[j], response)]),
                            !.calls = @ \ {call},
                            !.response = [NoResponse EXCEPT
                                             !.kind = "cell",
                                             !.success = response.success,
                                             !.threw = response.threw,
                                             !.cells = call.cells,
                                             !.cellId = call.cellId]]
            /\ UNCHANGED <<graphVars, engineVars, clientVars, sessionVars, pageVars>>
            /\ UNCHANGED <<workflow, chat, auth>>

\* executeBatch up to its await: the non-blank cells are joined and sent.
executeBatch_call ==
    /\ editor.executions < MaxExecutions
    /\ ~editor.isBatchExecuting
    /\ ValidCells([i \in 1..Len(editor.cells) |-> editor.cells[i].sql]) # <<>>
    /\ editor' =
          [editor EXCEPT
              !.isBatchExecuting = TRUE,
              !.executions = @ + 1,
              !.calls = @ \cup {[ kind |-> "batch", cellId |-> 0,
                                  cells |-> editor.cells,
                                  n |-> editor.executions + 1 ]}]
    /\ UNCHANGED <<graphVars, engineVars, clientVars, sessionVars, pageVars>>
    /\ UNCHANGED <<workflow, chat, auth>>

\* The executeSQL call of executeBatch settles.
executeBatch_returns ==
    \* executeBatch, SqlEditor.tsx:113-189
    \* The cells executeBatch sets when its executeSQL call has settled.
    LET CellsAfterBatch(cells, response) ==
            \* executeBatch, SqlEditor.tsx:138-141
            \* result.query_results[index], index being the position in cells.map.
            LET QueryIndex(cells_, index) == index
            IN
                    [ i \in 1..Len(cells) |->
                        LET cell == cells[i] IN
                        IF response.threw
                        THEN [cell EXCEPT !.result = None,
                                          !.error = IF cell.sql # Blank THEN "error" ELSE None]
                        ELSE IF response.success
                        THEN [cell EXCEPT !.result = IF cell.sql # Blank
                                                     THEN "Successfully executed" ELSE None,
                                          !.error = None]
                        ELSE IF response.has_query_results
                        THEN ShownAfterFailure(cell, QueryIndex(cells, i), response)
                        ELSE [cell EXCEPT !.result = None,
                                          !.error = IF cell.sql # Blank THEN "error" ELSE None] ]
    \* POST /sessions/{id}/execute-sql response (spec 5, part_008 response format)
    \* The answers of POST /execute-sql to the statements sqls.
        BatchResponses(sqls) ==
            \* query_results of a failed transaction (spec 5, part_008 response format)
            \* query_results of a transaction of sqls that failed at statement f: the
            \* entries of the statements up to f, followed by entries for the
            \* statements that were skipped when all is set.
            LET QueryResults(sqls_, f, all) ==
                    [ k \in 1..(IF all THEN Len(sqls_) ELSE f) |->
                        [ sql |-> sqls_[k], success |-> k < f,
                          error |-> IF k < f THEN None
                                    ELSE IF k = f THEN "error" ELSE "skipped" ] ]
            IN
                    { [NoResponse EXCEPT !.kind = "batch", !.success = TRUE],
                      [NoResponse EXCEPT !.kind = "batch", !.threw = TRUE] }
                    \cup { [NoResponse EXCEPT !.kind = "batch", !.failed_at_query = f] :
                              f \in 1..Len(sqls) }
                    \cup { [NoResponse EXCEPT !.kind = "batch", !.failed_at_query = f,
                                              !.has_query_results = TRUE,
                                              !.query_results = QueryResults(sqls, f, all)] :
                              f \in 1..Len(sqls), all \in BOOLEAN }
    IN
            /\ \E call \in editor.calls :
                  /\ call.kind = "batch"
                  /\ LET sqls == SplitSql(JoinSql(ValidCells(
                                    [i \in 1..Len(call.cells) |-> call.cells[i].sql])))
                     IN \E response \in BatchResponses(sqls) :
                           editor' =
                              [editor EXCEPT
                                  !.cells = CellsAfterBatch(
                                               CellsAfterAwait(@, call.cells), response),
                                  !.isBatchExecuting = FALSE,
                                  !.calls = @ \ {call},
                                  !.response = [response EXCEPT !.cells = call.cells]]
            /\ UNCHANGED <<graphVars, engineVars, clientVars, sessionVars, pageVars>>
            /\ UNCHANGED <<workflow, chat, auth>>

\* The editor of a message, mounted with the statements of initialQueries.
InitEditor ==
    \* SqlCell, SqlEditor.tsx:5-12
    \* The statements a cell may hold; Blank is a cell whose sql trims to ''.
    LET CellSqls == {Blank, Command("UPDATE"), Command("DELETE")}
    IN
            /\ GraphIdle
            /\ WorkflowIdle
            /\ PageIdle
            /\ SessionIdle
            /\ EngineIdle
            /\ ClientIdle
            /\ ChatIdle
            /\ AuthIdle
            /\ \E initialQueries \in SeqUpTo(CellSqls \ {Blank}, MaxInitialQueries) :
                  editor = [ cells |-> InitialCells(initialQueries),
                             isBatchExecuting |-> FALSE, calls |-> {},
                             nextId |-> Len(InitialCells(initialQueries)) + 1,
                             edits |-> 0, executions |-> 0, response |-> NoResponse ]

NextEditor ==
    \/ addCell
    \/ removeCell
    \/ updateCellSql
    \/ executeCell_call
    \/ executeCell_returns
    \/ executeBatch_call
    \/ executeBatch_returns

SpecEditor == InitEditor /\ [][NextEditor]_vars

\* The provider mounts, over a localStorage that is empty or holds the
\* token of an earlier visit.
InitAuth ==
    \* AuthProvider.login, part_004:108-110
    LET NoLogin == [pc |-> "idle", email |-> None, outcome |-> None]
    \* AuthProvider.login, part_004:111-112
        TokenOf(account) == [present |-> TRUE, account |-> account]
    \* AuthProvider.login, part_004:108-112
    \* The accounts that can sign in, by role, and the token issued to each.
        Accounts == Roles
    IN
            /\ GraphIdle
            /\ WorkflowIdle
            /\ PageIdle
            /\ SessionIdle
            /\ EngineIdle
            /\ ClientIdle
            /\ ChatIdle
            /\ EditorIdle
            /\ \E token \in {NoToken} \cup {TokenOf(a) : a \in Accounts} :
                  auth = [ auth_token |-> token, user |-> None, settings |-> None,
                           error |-> None, loading |-> TRUE, login |-> NoLogin,
                           mount |-> "loadUserFromToken", logins |-> 0 ]

NextAuth ==
    \/ loadUserFromToken
    \/ login_call
    \/ apiLogin_returns
    \/ getCurrentUser_returns
    \/ loadSettings_returns
    \/ logout

SpecAuth == InitAuth /\ [][NextAuth]_vars

InitChat ==
    /\ GraphIdle
    /\ WorkflowIdle
    /\ PageIdle
    /\ SessionIdle
    /\ EngineIdle
    /\ ChatIdle
    /\ EditorIdle
    /\ AuthIdle
    /\ sqlEditor = NoEditor
    /\ user \in [role : Roles \cup {None}, edit_mode_enabled : BOOLEAN]
    /\ user.role = None => ~user.edit_mode_enabled

NextChat ==
    \/ handleSendMessage_submit
    \/ createSession_returns
    \/ executeQuery_returns
    \/ loadSessionMessages
    \/ setUser

SpecChat == InitChat /\ [][NextChat]_vars

\* A call the component is waiting for settles.
CallSettles == createSession_returns \/ executeQuery_returns

SpecChatFair == InitChat /\ [][NextChat]_vars /\ WF_vars(CallSettles)


InitGraph ==
    /\ WorkflowIdle /\ PageIdle /\ SessionIdle /\ GraphIdle /\ EngineIdle /\ ClientIdle
    /\ ChatIdle /\ EditorIdle /\ AuthIdle

NextGraph ==
    \/ StartTurn
    \/ route_query_node
    \/ handle_conversational_node
    \/ generate_sql_node
    \/ validate_sql_node
    \/ generate_response_node
    \/ handle_error_node
    \/ generate_analytical_questions_node
    \/ execute_analytical_workflow_node
    \/ generate_comprehensive_analysis_node
    \/ executeQuery

SpecGraph == InitGraph /\ [][NextGraph]_vars

\* The compiled graph runs the pending node of a turn.
RunNode ==
    \/ route_query_node
    \/ handle_conversational_node
    \/ generate_sql_node
    \/ validate_sql_node
    \/ generate_response_node
    \/ handle_error_node
    \/ generate_analytical_questions_node
    \/ execute_analytical_workflow_node
    \/ generate_comprehensive_analysis_node

SpecGraphFair == InitGraph /\ [][NextGraph]_vars /\ WF_vars(RunNode)

InitEngine ==
    /\ WorkflowIdle /\ PageIdle /\ SessionIdle /\ EngineIdle /\ GraphIdle /\ ClientIdle
    /\ ChatIdle /\ EditorIdle /\ AuthIdle

NextEngine == execute_edit

SpecEngine == InitEngine /\ [][NextEngine]_vars

InitCache ==
    /\ WorkflowIdle /\ PageIdle /\ SessionIdle /\ EngineIdle /\ GraphIdle /\ ClientIdle
    /\ ChatIdle /\ EditorIdle /\ AuthIdle

NextCache ==
    \/ edit_between_turns
    \/ select_turn

SpecCache == InitCache /\ [][NextCache]_vars

InitConfirm ==
    /\ ChatIdle /\ EditorIdle /\ AuthIdle
    /\ GraphIdle
    /\ WorkflowIdle
    /\ PageIdle
    /\ SessionIdle
    /\ EngineIdle
    /\ sqlEditor = NoEditor
    /\ user \in [role : {"admin", "viewer"}, edit_mode_enabled : BOOLEAN]

NextConfirm ==
    \/ handleSendMessage
    \/ executeBatch
    \/ executeCell

SpecConfirm == InitConfirm /\ [][NextConfirm]_vars

InitSession ==
    /\ WorkflowIdle /\ PageIdle /\ SessionIdle /\ GraphIdle /\ EngineIdle /\ ClientIdle
    /\ ChatIdle /\ EditorIdle /\ AuthIdle

NextSession ==
    \/ query_with_session
    \/ begin_turn
    \/ run_node
    \/ commit_turn

SpecSession == InitSession /\ [][NextSession]_vars

InitPage ==
    /\ WorkflowIdle /\ PageIdle /\ SessionIdle /\ GraphIdle /\ EngineIdle /\ ClientIdle
    /\ ChatIdle /\ EditorIdle /\ AuthIdle

NextPage ==
    \/ execute_select
    \/ get_page
    \/ handlePageChange

SpecPage == InitPage /\ [][NextPage]_vars

InitAnalytical ==
    /\ WorkflowIdle /\ PageIdle /\ SessionIdle /\ GraphIdle /\ EngineIdle /\ ClientIdle
    /\ ChatIdle /\ EditorIdle /\ AuthIdle

NextAnalytical ==
    \/ process_analytical_workflow
    \/ generate_flexible_queries
    \/ execute_single_query
    \/ query_returns
    \/ generate_comprehensive_analysis

SpecAnalytical == InitAnalytical /\ [][NextAnalytical]_vars

(***************************************************************************)
(* Properties of the graph walk.                                           *)
(***************************************************************************)

\* C1: every turn that is over has reached exactly one terminal node and
\* ended at END; no turn stops in a non-terminal node and none reaches two
\* terminal nodes.
C1_ExactlyOneTerminal ==
    \* GraphManager.create_graph, part_008:982-986
    LET TerminalsReached == SelectSeq(path, LAMBDA n : n \in TerminalNodes)
    IN
            (TurnOver /\ turns > 0) =>
                /\ node = END
                /\ Len(TerminalsReached) = 1
                /\ path[Len(path)] \in TerminalNodes

\* C2: after a transaction-mode edit in which a statement failed nothing of
\* the transaction is committed: the database is in the state it had before
\* the transaction, the statements before failed_at_query are rolled back,
\* and those at or after it have left no rows.
C2_FailedTransactionCommitsNothing ==
    \* Rollback Information, part_008:296-304
    LET FailedTransaction == last_edit.transaction /\ ~last_edit.success
    IN
            FailedTransaction =>
                /\ db = last_edit.db_before
                /\ last_edit.rollback_performed
                /\ last_edit.failed_at_query \in 1..Len(last_edit.sqls)
                /\ \A j \in 1..Len(last_edit.per_statement) :
                      LET e == last_edit.per_statement[j] IN
                      /\ e.outcome # "committed"
                      /\ j < last_edit.failed_at_query => e.outcome = "rolled_back"
                      /\ j > last_edit.failed_at_query => e.outcome = "skipped"

\* A transaction failed after an earlier statement of it had changed the
\* uncommitted state.
C2_Witness ==
    \* Rollback Information, part_008:296-304
    LET FailedTransaction == last_edit.transaction /\ ~last_edit.success
    IN
            /\ FailedTransaction
            /\ last_edit.failed_at_query > 1
            /\ last_edit.per_statement[1].success
            /\ ExecStmt(last_edit.db_before, last_edit.sqls[1]).db # last_edit.db_before
            /\ db = last_edit.db_before

\* C3: an edit request of more than one statement, or of mode transaction,
\* runs inside one single transaction: the connection sees BEGIN, then the
\* statements in their given order, then one COMMIT or one ROLLBACK, and no
\* statement is committed on its own.
C3_OneTransactionInOrder ==
    \* Handling Failures, part_008:382-387
    \* The statements of the last edit that were sent to the database.
    LET ExecutedPrefix ==
            SubSeq(last_edit.sqls, 1,
                   IF last_edit.success THEN Len(last_edit.sqls)
                   ELSE last_edit.failed_at_query)
    \* Multi-Query Separator, part_008:223-226
        MustBeTransaction ==
            /\ last_edit.sqls # <<>>
            /\ (Len(last_edit.sqls) > 1 \/ last_edit.mode = "transaction")
    IN
            MustBeTransaction =>
                /\ last_edit.transaction
                /\ last_edit.ops =
                      <<Command("BEGIN")>> \o ExecutedPrefix
                          \o <<Command(IF last_edit.success THEN "COMMIT" ELSE "ROLLBACK")>>
                /\ last_edit.success =>
                      \A j \in 1..Len(last_edit.per_statement) :
                          last_edit.per_statement[j].outcome = "committed"
                /\ ~last_edit.success => db = last_edit.db_before

\* A request of several statements in mode auto ran to its commit.
C3_Witness ==
    /\ Len(last_edit.sqls) > 1
    /\ last_edit.mode = "auto"
    /\ last_edit.transaction
    /\ last_edit.success
    /\ db # last_edit.db_before

\* The step is a turn whose envelope asks for confirmation of an edit.
ConfirmationTurn ==
    /\ turns' = turns + 1
    /\ envelope'.query_type = "edit_sql"
    /\ envelope'.requires_confirmation

\* C4: a turn that ends with query_type = edit_sql and requires_confirmation
\* = true has not mutated the database; the statements of the editor run
\* only in a later step that re-submits them through execute_edit.
C4_ConfirmationTurnMutatesNothing ==
    [][ /\ ConfirmationTurn =>
            /\ db' = db
            /\ schema_version' = schema_version
            /\ last_edit' = last_edit
        /\ (turns' = turns /\ last_edit' # last_edit) =>
            /\ sqlEditor.attached
            /\ \A j \in 1..Len(last_edit'.sqls) :
                  \E c \in 1..Len(sqlEditor.cells) :
                      last_edit'.sqls[j] = sqlEditor.cells[c] ]_vars

\* A turn ended asking for confirmation with the editor on the message and
\* nothing executed so far.
C4_Witness ==
    \* Enhanced Response Format, part_008:268-304
    LET NoEdit ==
            [ sqls |-> <<>>, mode |-> "auto", db_before |-> EmptyDb, version_before |-> 0,
              per_statement |-> <<>>, ops |-> <<>>, success |-> TRUE,
              transaction |-> FALSE, rollback_performed |-> FALSE,
              failed_at_query |-> 0, schema_changed |-> FALSE, refresh |-> "none" ]
    IN
            /\ turns = 1
            /\ envelope.query_type = "edit_sql"
            /\ envelope.requires_confirmation
            /\ sqlEditor.attached
            /\ sqlEditor.requiresConfirmation
            /\ sqlEditor.cells = SplitSql(envelope.sql)
            /\ last_edit = NoEdit
            /\ db = EmptyDb

\* The step is a turn in which the Verifier returned DO_NOT_EXECUTE.
ForbiddenTurn ==
    /\ turns' = turns + 1
    /\ envelope'.verification_result = "DO_NOT_EXECUTE"

\* C5: in a turn where the Verifier returns DO_NOT_EXECUTE the core executes
\* nothing, and the turn ends with the report in the response.
C5_NeverAutoExecutesForbidden ==
    [][ ForbiddenTurn =>
            /\ UNCHANGED <<db, schema_version, cache, last_edit>>
            /\ envelope'.requires_confirmation
            /\ clientResult'.verification_result = "DO_NOT_EXECUTE" ]_vars

\* A turn with verdict DO_NOT_EXECUTE is over on a database with a table in
\* it, and the statements it generated would have changed that database.
C5_Witness ==
    /\ turns > 0
    /\ envelope.verification_result = "DO_NOT_EXECUTE"
    /\ clientResult.verification_result = "DO_NOT_EXECUTE"
    /\ db # EmptyDb
    /\ ExecuteEdit(db, SplitSql(envelope.sql), "auto").db # db

\* C6: every error a node does not recover from reaches handle_error, and
\* the turn's envelope has query_type = conversational and success = false.
C6_ErrorsReachHandleError ==
    (TurnOver /\ turns > 0 /\ state.error # None) =>
        /\ path[Len(path)] = "handle_error"
        /\ envelope.query_type = "conversational"
        /\ envelope.success = FALSE

\* C7: every record a Memory retrieval returns was stored under the session
\* that retrieves.
C7_RetrievalStaysInSession ==
    \A doc \in retrieved.docs : doc.session = retrieved.session

\* A session retrieved a record of its own while another session's records
\* were in the store.
C7_Witness ==
    \* MemoryManager.store_conversation, part_008:1243-1264
    \* The document store_conversation adds for turn i of session s.
    LET ConversationDoc(s, i) == [session |-> s, turn |-> i]
    \* query_with_session, part_008:865-865
        PersistDirs == {PersistDir(s) : s \in Sessions}
    IN
            /\ retrieved.docs # {}
            /\ \E s \in Sessions :
                  /\ s # retrieved.session
                  /\ \E d \in PersistDirs : ConversationDoc(s, 1) \in vector_store[d]

CommittedDDL ==
    \E j \in 1..Len(last_edit.per_statement) :
        /\ last_edit.per_statement[j].outcome = "committed"
        /\ IsSchemaChanging(last_edit.per_statement[j].sql)

C11_HitEqualsFreshExecution ==
    last_turn.hit =>
        /\ last_turn.fresh.success
        /\ last_turn.rows = last_turn.fresh.rows

\* The last page request was served (by the SELECT itself, by get_page or
\* through the client's controls).
PageServed == last_page.by \in {"select", "get_page", "handlePageChange"}

\* The stored rows the last page request was about.
OriginalRows == result_tables[last_page.table_id].rows

\* The page size the last page request was served with.
ServedPageSize == ClampPageSize(last_page.page_size)

\* C12: page p with page size n returns rows (p-1)*n+1 .. min(p*n,
\* total_rows) of the stored result in its original order, page 1 the first
\* n rows; 237 rows, page 3, page size 50 gives rows 101..150.
C12_PageIsSliceOfOriginal ==
    \* Paged result example (spec 9)
    \* The rows of the spec's example: 237 rows in their original order.
    LET Rows237 == [i \in 1..237 |-> i]
    IN
            /\ (PageServed /\ last_page.response.error = None) =>
                  LET first == (last_page.page - 1) * ServedPageSize + 1
                      last == IF last_page.page * ServedPageSize < Len(OriginalRows)
                              THEN last_page.page * ServedPageSize
                              ELSE Len(OriginalRows)
                  IN last_page.response.results =
                        [i \in 1..(last - first + 1) |-> OriginalRows[first + i - 1]]
            /\ (PageServed /\ last_page.page = 1) =>
                  /\ Len(last_page.response.results) <= ServedPageSize
                  /\ \A i \in 1..Len(OriginalRows) :
                        i <= ServedPageSize =>
                            /\ i <= Len(last_page.response.results)
                            /\ last_page.response.results[i] = OriginalRows[i]
            /\ PageOf(Rows237, 1, 3, 50).results = [i \in 1..50 |-> 100 + i]
            /\ PageOf(Rows237, 1, 3, 50).pagination.total_pages = 5

\* A page after the first of a result in descending order was served.
C12_Witness ==
    /\ last_page.by = "get_page"
    /\ last_page.page = 3
    /\ last_page.page_size = 5
    /\ last_page.response.error = None
    /\ Len(OriginalRows) = MaxRows
    /\ OriginalRows[1] = MaxRows
    /\ Len(last_page.response.results) = MaxRows - 10
    /\ last_page.response.results[1] = MaxRows - 10

C14_InvalidPageExactlyOutsideRange ==
    /\ last_page.by \in {"get_page", "handlePageChange"} =>
          LET total == Len(OriginalRows)
              inside ==
                  /\ last_page.page >= 1
                  /\ (last_page.page - 1) * ServedPageSize < total
          IN /\ inside <=> last_page.response.error = None
             /\ ~inside =>
                   /\ last_page.response.error = "invalid_page"
                   /\ last_page.response.results = <<>>
    /\ last_page.by = "handlePageChange" => last_page.response.error = None

\* Page 0 and a page after the last one of a result with rows were refused.
C14_Witness ==
    /\ last_page.by = "get_page"
    /\ last_page.response.error = "invalid_page"
    /\ Len(OriginalRows) > 0
    /\ last_page.page > last_page.response.pagination.total_pages
    /\ last_page.response.pagination.total_pages > 1

RECURSIVE FirstFailureFrom(_, _, _)
\* The 1-based position of the first statement from i on that fails when
\* the statements run one after the other from database state d; 0 if none.
FirstFailureFrom(d, sqls, i) ==
    IF i > Len(sqls) THEN 0
    ELSE IF ExecStmt(d, sqls[i]).ok
         THEN FirstFailureFrom(ExecStmt(d, sqls[i]).db, sqls, i + 1)
         ELSE i

C17_SubQueriesSequentialInPlannerOrder ==
    \* AnalyticalManager.process_analytical_workflow, part_008:1090-1107
    \* Query a comes before query b in planner order: an earlier question, or
    \* the same question and an earlier query of it.
    LET PlannerBefore(a, b) == a[1] < b[1] \/ (a[1] = b[1] /\ a[2] < b[2])
    IN
            /\ Cardinality(workflow.running) <= 1
            /\ \A a, b \in 1..Len(workflow.started) :
                  a < b => PlannerBefore(workflow.started[a], workflow.started[b])
            /\ \A q \in workflow.running : q = workflow.started[Len(workflow.started)]
            /\ \A a, b \in 1..Len(workflow.analytical_results) :
                  a < b =>
                      PlannerBefore(<<workflow.analytical_results[a].question_number,
                                      workflow.analytical_results[a].query_number>>,
                                    <<workflow.analytical_results[b].question_number,
                                      workflow.analytical_results[b].query_number>>)
            /\ workflow.phase = "returned" =>
                  /\ Len(workflow.result.tables) = Len(workflow.analytical_results)
                  /\ \A a, b \in 1..Len(workflow.result.tables) :
                        a < b =>
                            PlannerBefore(<<workflow.result.tables[a].question_number,
                                            workflow.result.tables[a].query_number>>,
                                          <<workflow.result.tables[b].question_number,
                                            workflow.result.tables[b].query_number>>)
                  /\ \A a \in 1..Len(workflow.result.tables) :
                        workflow.result.tables[a].name =
                            workflow.questions[workflow.result.tables[a].question_number]

\* A plan of two different questions returned a report with tables of both,
\* two of them of the first question.
C17_Witness ==
    /\ workflow.phase = "returned"
    /\ Len(workflow.questions) = 2
    /\ workflow.questions[1] # workflow.questions[2]
    /\ Len(workflow.result.tables) = 3
    /\ workflow.result.tables[2].question_number = 1
    /\ workflow.result.tables[3].question_number = 2

\* C18: when a sub-question of an analytical turn fails, every other
\* sub-question is still attempted and the turn returns a report with the
\* partial results that notes which sub-questions failed.
C18_FailureDoesNotAbortOthers ==
    \* AnalyticalManager.process_analytical_workflow, part_008:1122-1132
    LET WorkflowOver == workflow.phase \in {"returned", "raised"}
    \* AnalyticalManager.process_analytical_workflow, part_008:1107-1132
    \* What the returned report says about sub-questions that failed: the loop
    \* keeps successful results only, and neither the synthesis nor the returned
    \* dict receives anything about the others.
        NotedFailures(report) == {}
    IN
            (WorkflowOver /\ workflow.failed # {}) =>
                /\ workflow.attempted = 1..Len(workflow.questions)
                /\ workflow.phase = "returned"
                /\ workflow.result.tables =
                      FormatResultsAsTables(workflow.analytical_results)
                /\ NotedFailures(workflow.result) = workflow.failed

\* C19: when every sub-question of an analytical turn has failed, the
\* manager returns the error analytical_all_failed and no successful
\* analysis report.
C19_AllFailedIsAnError ==
    ( /\ workflow.phase = "returned"
      /\ workflow.failed = 1..Len(workflow.questions)
      /\ workflow.analytical_results = <<>> ) =>
        /\ ~workflow.result.success
        /\ workflow.result.error = "analytical_all_failed"

\* How many times generate_sql has run in the turn.
GenerateSqlRuns == Len(SelectSeq(path, LAMBDA n : n = "generate_sql"))

C21_AfterValidationExecutes ==
    \* GraphManager.create_graph, part_008:939-986
    \* The node the graph scheduled after the last run of n in this turn.
    LET NextAfter(n) ==
            LET i == CHOOSE i \in 1..Len(path) :
                         path[i] = n /\ \A j \in (i + 1)..Len(path) : path[j] # n
            IN IF i = Len(path) THEN node ELSE path[i + 1]
    \* GraphManager.create_graph, part_008:926-937
        HasRun(n) == \E i \in 1..Len(path) : path[i] = n
    IN
            (turns > 0 /\ HasRun("validate_sql")) =>
                /\ NextAfter("validate_sql") = "execute_query"
                /\ (TurnOver /\ state.error # None) =>
                      path[Len(path)] = "handle_error"

\* C22: a plan that has fewer than 2 sub-questions left after the duplicates
\* are removed sends the turn on to generate_sql (the standard path), not
\* to the analytical workflow and not to handle_error.
C22_ShortPlanDegradesToStandard ==
    \* GraphManager.create_graph, part_008:939-986
    \* The node the graph scheduled after the last run of n in this turn.
    LET NextAfter(n) ==
            LET i == CHOOSE i \in 1..Len(path) :
                         path[i] = n /\ \A j \in (i + 1)..Len(path) : path[j] # n
            IN IF i = Len(path) THEN node ELSE path[i + 1]
    \* GraphManager.create_graph, part_008:926-937
        HasRun(n) == \E i \in 1..Len(path) : path[i] = n
    IN
            ( /\ turns > 0
              /\ HasRun("generate_analytical_questions")
              /\ state.error = None
              /\ Len(state.analytical_questions) < 2 ) =>
                NextAfter("generate_analytical_questions") = "generate_sql"

\* C23: the result executeQuery returns to handleSendMessage carries the
\* query_type of the server's envelope, for each of conversational, sql,
\* edit_sql, analysis and edit_execution.
C23_QueryTypeHandedOnUnchanged ==
    (turns > 0 /\ envelope # NoEnvelope) =>
        clientResult.query_type = envelope.query_type

(***************************************************************************)
(* Properties of the ChatBot component.                                    *)
(***************************************************************************)

\* C24: a SqlEditor is on the screen only while the current user's role is
\* admin, and an editor is attached to a new or loaded message only by a
\* handler whose user is an admin; for any other user no response and no
\* stored message, edit_sql or not, yields a rendered editor.
C24_EditorOnlyForAdmin ==
    /\ [](\A i \in 1..Len(chat.messages) :
             Rendered(chat.messages[i], chat.sessionId, user) =>
                 user.role = "admin")
    /\ [][ \A i \in 1..Len(chat'.messages) :
              \* The message was added (or loaded) by the step with an
              \* editor attached.
              ( /\ chat'.messages[i].sqlEditor.attached
                /\ \A j \in 1..Len(chat.messages) :
                      chat.messages[j].id # chat'.messages[i].id ) =>
                  \/ user.role = "admin"
                  \/ /\ chat.send.pc = "executeQuery"
                     /\ chat.send.user.role = "admin" ]_vars

\* The chat holds a message with an editor attached, from a response and
\* from a stored edit_sql message, while the user is not an admin.
C24_Witness ==
    /\ user.role = "viewer"
    /\ chat.sessionId # None
    /\ \E i \in 1..Len(chat.messages) :
          /\ chat.messages[i].sqlEditor.attached
          /\ chat.messages[i].sqlEditor.requiresConfirmation
          /\ chat.messages[i].query_type = "edit_sql"
    /\ \A i \in 1..Len(chat.messages) :
          ~Rendered(chat.messages[i], chat.sessionId, user)

\* C29: every handleSendMessage call that has set isProcessing comes to its
\* end with isProcessing reset, whether the session could not be created,
\* the query succeeded or the query raised; and the call in which
\* createSession fails sends no query.
C29_ProcessingIsResetOnEveryPath ==
    \* chat.send.pc # "idle": a handleSendMessage call is between its
    \* setIsProcessing(true) and its return.
    /\ (chat.send.pc # "idle") ~> (chat.send.pc = "idle" /\ ~chat.isProcessing)
    /\ [][ (chat.send.pc # "idle" /\ chat'.send.pc = "idle") =>
              /\ ~chat'.isProcessing
              /\ chat'.send.outcome \in
                    {"session_failed", "query_success", "query_error"} ]_vars
    /\ [][ (chat.send.pc # "idle" /\ chat'.send.outcome = "session_failed") =>
              /\ chat'.sent = chat.sent
              /\ chat'.send.pc = "idle" ]_vars

\* One call ended because the session could not be created, and the next
\* one created it and ended in the catch block.
C29_Witness ==
    /\ chat.calls = 2
    /\ chat.sent = 1
    /\ chat.send.outcome = "query_error"
    /\ chat.send.pc = "idle"
    /\ ~chat.isProcessing
    /\ Len(chat.messages) = 6

C28_PageChangeFrame ==
    [][ \A r \in chat.pending :
           \* The step settles the page request r with a page response.
           ( /\ chat'.pending = chat.pending \ {r}
             /\ chat'.page_response.request = r
             /\ ~chat'.page_response.threw ) =>
               /\ Len(chat'.messages) = Len(chat.messages)
               /\ \A i \in 1..Len(chat.messages) :
                     LET old == chat.messages[i]
                         new == chat'.messages[i]
                     IN /\ old.id # r.messageId => new = old
                        \* Nothing changed but the rows, the pagination and
                        \* the table_id of the sqlResult.
                        /\ old.sqlResult.present =>
                              new = [old EXCEPT
                                        !.sqlResult.data = new.sqlResult.data,
                                        !.sqlResult.pagination = new.sqlResult.pagination,
                                        !.sqlResult.table_id = new.sqlResult.table_id]
                        \* Nothing changed but the analysis tables that had
                        \* the table_id of the request.
                        /\ ~old.sqlResult.present =>
                              /\ new = [old EXCEPT !.analysisResult.tables =
                                                       new.analysisResult.tables]
                              /\ Len(new.analysisResult.tables)
                                    = Len(old.analysisResult.tables)
                              /\ \A k \in 1..Len(old.analysisResult.tables) :
                                    old.analysisResult.tables[k].table_id # r.tableId =>
                                        new.analysisResult.tables[k]
                                            = old.analysisResult.tables[k]
                        /\ new.sqlResult.visualization_recommendations
                              = old.sqlResult.visualization_recommendations
                        /\ new.sqlResult.saved_charts = old.sqlResult.saved_charts
      ]_vars

\* Page 2 of the SELECT message arrived: that message shows the new rows
\* and still has its chart fields, and the analysis message is as it was.
C28_Witness ==
    /\ ~chat.page_response.threw
    /\ chat.page_response.request.newPage = 2
    /\ chat.pending = {}
    /\ \E i \in 1..Len(chat.messages) :
          /\ chat.messages[i].id = chat.page_response.request.messageId
          /\ chat.messages[i].sqlResult.present
          /\ chat.messages[i].sqlResult.data = chat.page_response.result.results
          /\ chat.messages[i].sqlResult.visualization_recommendations = "bar"
          /\ chat.messages[i].sqlResult.saved_charts = "c1"
    /\ \E j \in 1..Len(chat.messages) :
          /\ chat.messages[j].analysisResult.present
          /\ chat.messages[j].analysisResult.tables
                = <<AnalysisTable("t2"), AnalysisTable("t3")>>

(***************************************************************************)
(* Properties of the SqlEditor component.                                  *)
(***************************************************************************)

\* C25: after executeBatch ended in a failed transaction with query_results,
\* the k-th non-blank cell shows the outcome of query_results[k] (and of
\* failed_at_query = k), also when blank cells come before it; stated for
\* a batch during which the cells were not changed.
C25_CellsShowTheirOwnOutcome ==
    [][ \A call \in editor.calls :
           \* The step settles the executeSQL call of an executeBatch.
           ( /\ editor'.calls = editor.calls \ {call}
             /\ call.kind = "batch"
             /\ editor.cells = call.cells
             /\ ~editor'.response.success
             /\ ~editor'.response.threw
             /\ editor'.response.has_query_results ) =>
               \A i \in 1..Len(editor'.cells) :
                   \* k: the position of cell i among the non-blank cells.
                   LET k == Cardinality({j \in 1..i : editor'.cells[j].sql # Blank})
                   IN editor'.cells[i].sql # Blank =>
                          editor'.cells[i] =
                              ShownAfterFailure(editor'.cells[i], k, editor'.response)
      ]_vars

\* C26: when the executeSQL call of executeCell settles, the cells are
\* those of that moment with only isExecuting, result and error of the
\* executed cell changed: what was edited, added, removed or executed in
\* the meantime is still there.
C26_ExecuteCellKeepsConcurrentChanges ==
    [][ \A call \in editor.calls :
           \* The step settles the executeSQL call of an executeCell.
           (editor'.calls = editor.calls \ {call} /\ call.kind = "cell") =>
               /\ Len(editor'.cells) = Len(editor.cells)
               /\ \A i \in 1..Len(editor.cells) :
                     LET old == editor.cells[i]
                         new == editor'.cells[i]
                     IN IF old.id = call.cellId
                        THEN new = [old EXCEPT !.isExecuting = new.isExecuting,
                                               !.result = new.result,
                                               !.error = new.error]
                        ELSE new = old ]_vars

(***************************************************************************)
(* Properties of the AuthProvider.                                         *)
(***************************************************************************)

\* C30: when login returns with an error, localStorage holds no auth_token
\* and user is null, also when apiLogin succeeded and getCurrentUser failed.
C30_FailedLoginLeavesNoToken ==
    \* The step is the return of a login call with an error; isAuthenticated
    \* is !!user.
    [][ ( /\ auth.login.pc # "idle"
          /\ auth'.login.pc = "idle"
          /\ auth'.login.outcome = "error" ) =>
            /\ auth'.auth_token = NoToken
            /\ auth'.user = None ]_vars

====
